---- MODULE Spec2Model ----
(***************************************************************************)
(* Journal aggregation of the Hermes travel-journal client.                *)
(*                                                                         *)
(* The journal screen (frontend/app/screens/JournalScreen.tsx, the newest  *)
(* copy of which is kept in src/frontend/app/Register.tsx, lines 1190 on)  *)
(* fetches a mapping  date -> list of entry records  and turns it into the *)
(* list of daily bundles shown in the list view.                           *)
(*                                                                         *)
(* Representation of JavaScript values.  A value is a record [t, v] whose  *)
(* tag t is the JavaScript type.  A string is a sequence of characters;    *)
(* text that the code never looks into (a host name, a file name, a word   *)
(* of prose) may be kept as one multi-character element; such an element   *)
(* neither begins nor ends with white space and holds no slash and no part *)
(* of a literal the code matches against.  An object is the sequence of    *)
(* its own properties in insertion order, each a record [k, v].            *)
(***************************************************************************)
EXTENDS Integers, Sequences, FiniteSets, TLC

VARIABLES
    baseURL,        \* apiClient.defaults.baseURL
    urlArg,         \* normalizeUrl: the argument of a call
    urlOut,         \* normalizeUrl: the value returned for urlArg
    urlOut2,        \* normalizeUrl: the value returned for urlOut
    urlPc,          \* position of the normalizeUrl caller
    respDebugUser,        \* what GET /journal/debug/user answers
    respLocations,        \* what GET /journal/locations answers
    respEntries,          \* what GET /journal/entries answers
    respDailyEntries,     \* what GET /journal/daily_entries answers
    conversationLocations,  \* useState: markers of the map view
    dailyConversations,     \* useState: bundles of the list view
    loadOutcome,    \* how the last loadConversationData run ended
    listView,       \* summary text shown by each item of the list view
    dayView,        \* summary text shown by JournalDayScreen
    droppedPins,          \* usePins: the pins of the map
    selectedCategories,   \* useState: categories chosen in the pins list
    maxDistance,          \* useState: radius of the pins list, in miles
    location,             \* useState: coordinates of the user, or null
    sortOption,           \* useState: 'none', 'distance' or 'time'
    categoryStep,   \* getFilteredPins: filtered after the category step
    filteredPins,   \* getFilteredPins: the list returned to the pins list
    serverJournal,          \* the journal_entries mapping the backend holds
    loads,                  \* the runs of loadConversationData, in order of start
    selectedConversation,   \* useState: the entry shown by the detail modal
    showConversationModal,  \* useState: the detail modal is visible
    isEditing,              \* useState: the detail modal is in edit mode
    editableMessage,        \* useState: text of the title input
    editableResponse,       \* useState: text of the diary input
    isSaving,               \* useState: handleSaveEdit is running
    saveCall,               \* handleSaveEdit: its position and what it closed over
    refreshing,             \* useState: the RefreshControl spins
    latestResult,           \* what the run started last has computed
    saves,                  \* number of handleSaveEdit calls so far
    messages,               \* useState: the chat of the home screen
    inputText,              \* useState: text of the chat input
    isLoading,              \* useState: a chat request is on its way
    ttsEnabled,             \* useState: replies are read aloud
    chatCalls,              \* the calls of handleSubmitMessage, in order of start
    plays,                  \* the text-to-speech calls, in order of start
    currentSoundRef,        \* useRef: the sound that plays, or null
    currentSoundFileUriRef, \* useRef: the temp file of that sound, or null
    sounds,                 \* the sounds the audio player holds loaded
    files,                  \* the temp files that exist
    isRecording,            \* MicButton useState
    recording,              \* MicButton useState: the Audio.Recording, or null
    isProcessing,           \* MicButton useState
    micCalls,               \* the calls of startRecording and stopRecording
    prepared,               \* the recording the audio recorder holds prepared
    transcripts,            \* calls of onTranscriptionComplete, per recording
    micStarts,              \* number of startRecording calls so far
    currentUser,            \* auth.currentUser
    demoUserId,             \* AsyncStorage: the item 'demo_user_id'
    authCalls               \* the runs of the request interceptor

urlVars == <<urlArg, urlOut, urlOut2, urlPc>>

netVars == <<respDebugUser, respLocations, respEntries, respDailyEntries>>

journalVars == <<conversationLocations, dailyConversations, loadOutcome,
                 listView, dayView>>

pinVars == <<droppedPins, selectedCategories, maxDistance, location, sortOption,
             categoryStep, filteredPins>>

editVars == <<serverJournal, loads, selectedConversation, showConversationModal,
              isEditing, editableMessage, editableResponse, isSaving, saveCall,
              refreshing, latestResult, saves>>

homeVars == <<messages, inputText, isLoading, ttsEnabled, chatCalls, plays,
              currentSoundRef, currentSoundFileUriRef, sounds, files>>

micVars == <<isRecording, recording, isProcessing, micCalls, prepared, transcripts,
             micStarts>>

authVars == <<currentUser, demoUserId, authCalls>>

appVars == <<editVars, homeVars, micVars, authVars>>

vars == <<baseURL, urlVars, netVars, journalVars, pinVars, appVars>>

(***************************************************************************)
(* Bounds of the model.                                                    *)
(***************************************************************************)
MaxPieces == 3      \* pieces concatenated into one photo value
MaxDays == 3        \* date keys of a journal_entries mapping
MaxEntries == 2     \* entry records under one date key
MaxPins == 3        \* pins on the map
MaxLoads == 2       \* runs of loadConversationData under way at a time
MaxSaves == 1       \* calls of handleSaveEdit
MaxPlays == 2       \* calls of the text-to-speech player under way at a time
MaxRecordings == 2  \* calls of startRecording
MaxRequests == 3    \* requests that pass the interceptor
MaxMicCalls == 2    \* calls of startRecording and stopRecording under way at a time

(***************************************************************************)
(* JavaScript values.                                                      *)
(***************************************************************************)
Undefined == [t |-> "undefined", v |-> <<>>]
Null      == [t |-> "null", v |-> <<>>]
NaN       == [t |-> "nan", v |-> <<>>]
Str(s)    == [t |-> "string", v |-> s]
Num(n)    == [t |-> "number", v |-> n]
Arr(xs)   == [t |-> "array", v |-> xs]
Obj(ps)   == [t |-> "object", v |-> ps]

\* ToBoolean: undefined, null, NaN, "" and 0 are falsy.
Truthy(x) ==
    CASE x.t = "string" -> x.v # <<>>
      [] x.t = "number" -> x.v # 0
      [] x.t = "array"  -> TRUE
      [] x.t = "object" -> TRUE
      [] OTHER          -> FALSE

\* a || b
Or(a, b) == IF Truthy(a) THEN a ELSE b

(***************************************************************************)
(* String primitives used by the screen.                                   *)
(***************************************************************************)
IsWhiteSpace(c) == c \in {" ", "\t", "\n"}

RECURSIVE TrimStart(_)
TrimStart(s) ==
    IF s # <<>> /\ IsWhiteSpace(Head(s)) THEN TrimStart(Tail(s)) ELSE s

RECURSIVE TrimEnd(_)
TrimEnd(s) ==
    IF s # <<>> /\ IsWhiteSpace(s[Len(s)])
    THEN TrimEnd(SubSeq(s, 1, Len(s) - 1))
    ELSE s

\* String.prototype.trim
Trim(s) == TrimEnd(TrimStart(s))

UpperCase == <<"A", "B", "C", "D", "E", "F", "G", "H", "I", "J", "K", "L", "M",
               "N", "O", "P", "Q", "R", "S", "T", "U", "V", "W", "X", "Y", "Z">>
LowerCase == <<"a", "b", "c", "d", "e", "f", "g", "h", "i", "j", "k", "l", "m",
               "n", "o", "p", "q", "r", "s", "t", "u", "v", "w", "x", "y", "z">>

LowerChar(c) ==
    IF \E i \in 1..Len(UpperCase) : UpperCase[i] = c
    THEN LowerCase[CHOOSE i \in 1..Len(UpperCase) : UpperCase[i] = c]
    ELSE c

\* String.prototype.toLowerCase
ToLowerCase(s) == [i \in 1..Len(s) |-> LowerChar(s[i])]

\* String.prototype.startsWith
StartsWith(s, p) == Len(s) >= Len(p) /\ SubSeq(s, 1, Len(p)) = p

\* String.prototype.includes
Includes(s, sub) ==
    \E i \in 0..(Len(s) - Len(sub)) : SubSeq(s, i + 1, i + Len(sub)) = sub

\* Array.prototype.join
RECURSIVE Join(_, _)
Join(parts, sep) ==
    IF parts = <<>> THEN <<>>
    ELSE IF Len(parts) = 1 THEN parts[1]
    ELSE parts[1] \o sep \o Join(Tail(parts), sep)

(***************************************************************************)
(* normalizeUrl (Register.tsx 1385-1396).                                  *)
(***************************************************************************)
HttpPrefix  == <<"h", "t", "t", "p", ":", "/", "/">>
HttpsPrefix == <<"h", "t", "t", "p", "s", ":", "/", "/">>
PlaceholderToken ==
    <<"p", "l", "a", "c", "e", "h", "o", "l", "d", "e", "r", "_",
      "i", "m", "a", "g", "e", "_", "u", "r", "l">>

\* a slip that recognises https:// only as absolute
normalizeUrlHttpsOnly(url) ==
    IF ~Truthy(url) THEN Null
    ELSE LET trimmed == Trim(url.v)
             base    == Or(baseURL, Str(<<>>)).v
         IN  IF trimmed = <<>> THEN Null
             ELSE IF Includes(ToLowerCase(trimmed), PlaceholderToken) THEN Null
             ELSE IF StartsWith(trimmed, HttpsPrefix) THEN Str(trimmed)
             ELSE IF StartsWith(trimmed, <<"/">>) THEN Str(base \o trimmed)
             ELSE Str(base \o <<"/">> \o trimmed)

normalizeUrl(url) ==
    IF ~Truthy(url) THEN Null
    ELSE LET trimmed == Trim(url.v)
             base    == Or(baseURL, Str(<<>>)).v
         IN  IF trimmed = <<>> THEN Null
             ELSE IF Includes(ToLowerCase(trimmed), PlaceholderToken) THEN Null
             ELSE IF StartsWith(trimmed, HttpPrefix) \/ StartsWith(trimmed, HttpsPrefix)
                  THEN Str(trimmed)
             ELSE IF StartsWith(trimmed, <<"/">>) THEN Str(base \o trimmed)
             ELSE Str(base \o <<"/">> \o trimmed)

(***************************************************************************)
(* Objects and arrays.                                                     *)
(***************************************************************************)
HasKey(obj, key) == \E i \in 1..Len(obj.v) : obj.v[i].k = key

\* obj[key]; a missing property reads as undefined
Get(obj, key) ==
    IF HasKey(obj, key)
    THEN obj.v[CHOOSE i \in 1..Len(obj.v) : obj.v[i].k = key].v
    ELSE Undefined

\* Array.prototype.map
Map(xs, F(_)) ==
    LET RECURSIVE MapUpTo(_)
        MapUpTo(n) == IF n = 0 THEN <<>> ELSE Append(MapUpTo(n - 1), F(xs[n]))
    IN  MapUpTo(Len(xs))

\* Array.prototype.filter
Filter(xs, P(_)) == SelectSeq(xs, P)

\* Array.prototype.find: the first element that passes, else undefined
Find(xs, P(_)) ==
    LET hits == SelectSeq(xs, P) IN IF hits = <<>> THEN Undefined ELSE hits[1]

\* Reading a property of null or undefined throws a TypeError.
ThrowsOnRead(x) == x.t \in {"null", "undefined"}

(***************************************************************************)
(* Date parsing:  new Date(s).getTime()  for a date-only ISO string        *)
(* YYYY-MM-DD is midnight UTC of that day; a string in no date format is   *)
(* an Invalid Date, whose time is NaN.  Times are kept in days, that is in *)
(* units of 86 400 000 ms.                                                 *)
(***************************************************************************)
Digits == <<"0", "1", "2", "3", "4", "5", "6", "7", "8", "9">>

IsDigit(c) == \E i \in 1..10 : Digits[i] = c

DigitValue(c) == (CHOOSE i \in 1..10 : Digits[i] = c) - 1

RECURSIVE ParseInt(_)
ParseInt(s) ==
    IF s = <<>> THEN 0
    ELSE 10 * ParseInt(SubSeq(s, 1, Len(s) - 1)) + DigitValue(s[Len(s)])

IsLeapYear(y) == (y % 4 = 0 /\ y % 100 # 0) \/ y % 400 = 0

DaysInMonth(y, m) ==
    IF m = 2 THEN (IF IsLeapYear(y) THEN 29 ELSE 28)
    ELSE IF m \in {4, 6, 9, 11} THEN 30 ELSE 31

\* days from 1970-01-01 to y-m-d in the proleptic Gregorian calendar
DaysFromCivil(y, m, d) ==
    LET yy  == IF m <= 2 THEN y - 1 ELSE y
        era == yy \div 400
        yoe == yy - era * 400
        mp  == (m + 9) % 12
        doy == (153 * mp + 2) \div 5 + d - 1
        doe == yoe * 365 + yoe \div 4 - yoe \div 100 + doy
    IN  era * 146097 + doe - 719468

IsIsoDate(s) ==
    /\ Len(s) = 10
    /\ \A i \in {1, 2, 3, 4, 6, 7, 9, 10} : IsDigit(s[i])
    /\ s[5] = "-" /\ s[8] = "-"
    /\ ParseInt(SubSeq(s, 6, 7)) \in 1..12
    /\ ParseInt(SubSeq(s, 9, 10)) \in
           1..DaysInMonth(ParseInt(SubSeq(s, 1, 4)), ParseInt(SubSeq(s, 6, 7)))

\* new Date(s).getTime()
DateGetTime(s) ==
    IF IsIsoDate(s)
    THEN Num(DaysFromCivil(ParseInt(SubSeq(s, 1, 4)), ParseInt(SubSeq(s, 6, 7)),
                           ParseInt(SubSeq(s, 9, 10))))
    ELSE NaN

(***************************************************************************)
(* Array.prototype.sort.  A comparator result of NaN counts as +0.  The    *)
(* sort is stable when the comparator is a consistent ordering; otherwise  *)
(* ECMAScript leaves the resulting order to the engine, and any order of   *)
(* the same elements can come out.                                         *)
(***************************************************************************)
\* (a, b) => new Date(b.date).getTime() - new Date(a.date).getTime()
CompareByDateDesc(a, b) ==
    LET ta == DateGetTime(a.date.v)
        tb == DateGetTime(b.date.v)
    IN  IF ta.t = "nan" \/ tb.t = "nan" THEN NaN ELSE Num(tb.v - ta.v)

SortKey(c) == IF c.t = "nan" THEN 0 ELSE c.v

RECURSIVE InsertStable(_, _)
InsertStable(sorted, x) ==
    IF sorted = <<>> THEN <<x>>
    ELSE IF SortKey(CompareByDateDesc(sorted[Len(sorted)], x)) <= 0
         THEN Append(sorted, x)
    ELSE Append(InsertStable(SubSeq(sorted, 1, Len(sorted) - 1), x),
                sorted[Len(sorted)])

RECURSIVE StableSort(_)
StableSort(xs) ==
    IF xs = <<>> THEN <<>>
    ELSE InsertStable(StableSort(SubSeq(xs, 1, Len(xs) - 1)), xs[Len(xs)])

ConsistentComparator(xs) ==
    LET order == Map(xs, LAMBDA a :
                     Map(xs, LAMBDA b : SortKey(CompareByDateDesc(a, b))))
        c(i, j) == order[i][j]
    IN  \A i, j, k \in 1..Len(xs) :
            /\ (c(i, j) = 0 /\ c(j, k) = 0) => c(i, k) = 0
            /\ (c(i, j) < 0 /\ c(j, k) <= 0) => c(i, k) < 0
            /\ (c(i, j) <= 0 /\ c(j, k) < 0) => c(i, k) < 0
            /\ (c(i, j) < 0) <=> (c(j, i) > 0)

Reorderings(xs) ==
    { [i \in 1..Len(xs) |-> xs[p[i]]] : p \in Permutations(1..Len(xs)) }

\* .sort((a, b) => new Date(b.date).getTime() - new Date(a.date).getTime())
SortOutcomes(xs) ==
    IF ConsistentComparator(xs) THEN { StableSort(xs) } ELSE Reorderings(xs)

(***************************************************************************)
(* distanceMeters (utils/helpers.ts 5-18) in fixed-point arithmetic.       *)
(* Degrees are counted in thousandths of a degree, angles in units of      *)
(* 10^-7 radian, sines in units of 10^-7, cosines in units of 10^-5 and    *)
(* the haversine a in units of 10^-14; the series of sine, cosine and arc  *)
(* tangent are cut after their second term.  The result is in whole        *)
(* metres, right to about one part in a thousand for two points that lie   *)
(* within 0.2 degree of latitude and of longitude of each other and within *)
(* 0.2 degree of the equator.                                              *)
(***************************************************************************)
\* division that rounds towards zero
Quot(a, b) == IF a >= 0 THEN a \div b ELSE -((-a) \div b)

\* x * Math.PI / 180
ToRadians(mdeg) == Quot(mdeg * 174533, 1000)

\* Math.sin
Sin(x) == x - Quot(Quot(x * x, 10000000) * x, 60000000)

\* Math.cos
Cos(x) == 100000 - Quot(x * x, 2000000000)

\* Math.sqrt of a whole number, rounded down
Sqrt(n) ==
    LET RECURSIVE Between(_, _)
        Between(lo, hi) ==
            IF hi - lo <= 1 THEN lo
            ELSE LET mid == (lo + hi) \div 2
                 IN  IF mid * mid <= n THEN Between(mid, hi) ELSE Between(lo, mid)
    IN  Between(0, 46341)

\* Math.atan2(y, x) for 0 <= y < x, both in units of 10^-7
Atan2(y, x) ==
    LET r == Quot(y * 10000, x \div 1000)
    IN  r - Quot(Quot(r * r, 10000000) * r, 30000000)

\* the Earth's radius R, in kilometres
EarthRadiusKm == 6371

distanceMeters(lat1, lon1, lat2, lon2) ==
    LET phi1     == ToRadians(lat1)
        phi2     == ToRadians(lat2)
        dPhi     == ToRadians(lat2 - lat1)
        dLambda  == ToRadians(lon2 - lon1)
        sinPhi   == Sin(Quot(dPhi, 2))
        sinLam   == Sin(Quot(dLambda, 2))
        a        == sinPhi * sinPhi
                    + Quot(Cos(phi1) * sinLam, 100000) * Quot(Cos(phi2) * sinLam, 100000)
        c        == 2 * Atan2(Sqrt(a), Sqrt(100000000 - a \div 1000000) * 1000)
    IN  Quot(EarthRadiusKm * c, 10000)

\* meters * 0.000621371, in thousandths of a mile
MilliMiles(meters) == Quot(meters * 6214, 10000)

(***************************************************************************)
(* getFilteredPins (Register.tsx 631-671).  A pin is a record with the     *)
(* fields id, category, latitude, longitude and createdAt; createdAt is a  *)
(* date or is absent, so that no comparison of two pins is NaN and the     *)
(* sort, which is stable, has one outcome.                                 *)
(***************************************************************************)
\* Array.prototype.sort with a comparator that is a consistent order
Sort(xs, Compare(_, _)) ==
    LET RECURSIVE Insert(_, _)
        Insert(sorted, x) ==
            IF sorted = <<>> THEN <<x>>
            ELSE IF Compare(sorted[Len(sorted)], x) <= 0 THEN Append(sorted, x)
            ELSE Append(Insert(SubSeq(sorted, 1, Len(sorted) - 1), x),
                        sorted[Len(sorted)])
        RECURSIVE SortUpTo(_)
        SortUpTo(n) == IF n = 0 THEN <<>> ELSE Insert(SortUpTo(n - 1), xs[n])
    IN  SortUpTo(Len(xs))

\* selectedCategories.includes(pin.category)
IncludesCategory(selected, category) ==
    \E i \in 1..Len(selected) : selected[i] = category

\* a slip that lets no pin pass when no category is selected
CategoryFilterStrict(pins, selected) ==
    SelectSeq(pins, LAMBDA pin : IncludesCategory(selected, pin.category))

\* the category step (635-637)
CategoryFilter(pins, selected) ==
    IF Len(selected) > 0
    THEN SelectSeq(pins, LAMBDA pin : IncludesCategory(selected, pin.category))
    ELSE pins

PinDistance(loc, pin) ==
    distanceMeters(loc.latitude, loc.longitude, pin.latitude, pin.longitude)

\* a slip that compares kilometres with maxDistance
WithinKilometres(loc, pin, maxMiles) ==
    PinDistance(loc, pin) <= maxMiles * 1000

\* the test of the distance step (641-645)
WithinDistance(loc, pin, maxMiles) ==
    MilliMiles(PinDistance(loc, pin)) <= maxMiles * 1000

\* distanceA - distanceB (649-653)
CompareByDistance(loc, a, b) == PinDistance(loc, a) - PinDistance(loc, b)

\* new Date(pin.createdAt || 0).getTime(), in days
PinTime(pin) ==
    IF Truthy(pin.createdAt) THEN DateGetTime(pin.createdAt.v).v ELSE 0

\* timeB - timeA (655-659, 663-667)
CompareByTime(a, b) == PinTime(b) - PinTime(a)

\* a slip that sorts by distance in place of the time sort
SortedPinsByDistanceOnly(pins, loc, option) ==
    IF loc # Null /\ option \in {"distance", "time"}
    THEN Sort(pins, LAMBDA a, b : CompareByDistance(loc, a, b))
    ELSE pins

\* the sort step (648-668)
SortedPins(pins, loc, option) ==
    IF loc # Null /\ option = "distance"
    THEN Sort(pins, LAMBDA a, b : CompareByDistance(loc, a, b))
    ELSE IF option = "time"
    THEN Sort(pins, CompareByTime)
    ELSE pins

getFilteredPins(pins, selected, maxMiles, loc, option) ==
    LET byCategory == CategoryFilter(pins, selected)
        filtered   == IF loc # Null
                      THEN SelectSeq(byCategory,
                                     LAMBDA pin : WithinDistance(loc, pin, maxMiles))
                      ELSE byCategory
    IN  SortedPins(filtered, loc, option)

\* the screens that show no pins list
NoPins ==
    /\ droppedPins = <<>>
    /\ selectedCategories = <<>>
    /\ maxDistance = 10
    /\ location = Null
    /\ sortOption = "none"
    /\ categoryStep = <<>>
    /\ filteredPins = <<>>

\* the journal screen before anything was opened, edited or refreshed
NoEdit ==
    /\ serverJournal = Obj(<<>>)
    /\ loads = <<>>
    /\ selectedConversation = Null
    /\ showConversationModal = FALSE
    /\ isEditing = FALSE
    /\ editableMessage = Str(<<>>)
    /\ editableResponse = Str(<<>>)
    /\ isSaving = FALSE
    /\ saveCall = [pc |-> "idle"]
    /\ refreshing = FALSE
    /\ latestResult = Undefined
    /\ saves = 0

\* the home screen before a message was sent
NoHome ==
    /\ messages = <<>>
    /\ inputText = <<>>
    /\ isLoading = FALSE
    /\ ttsEnabled = FALSE
    /\ chatCalls = <<>>
    /\ plays = <<>>
    /\ currentSoundRef = Null
    /\ currentSoundFileUriRef = Null
    /\ sounds = {}
    /\ files = {}

\* the microphone button before it was pressed
NoMic ==
    /\ isRecording = FALSE
    /\ recording = Null
    /\ isProcessing = FALSE
    /\ micCalls = <<>>
    /\ prepared = Null
    /\ transcripts = <<>>
    /\ micStarts = 0

\* the API client before it sent a request
NoAuth ==
    /\ currentUser = Null
    /\ demoUserId = Null
    /\ authCalls = <<>>

\* the screens other than the one a specification follows
NoApp == NoEdit /\ NoHome /\ NoMic /\ NoAuth

(***************************************************************************)
(* The transform of loadConversationData (Register.tsx 1381-1491).         *)
(***************************************************************************)
\* property names
KSummary      == <<"summary">>
KDiary        == <<"diary">>
KResponse     == <<"response">>
KTimestamp    == <<"timestamp">>
KLatitude     == <<"latitude">>
KLongitude    == <<"longitude">>
KLocationName == <<"location_name">>
KSessionId    == <<"session_id">>
KPhotoUrl     == <<"p", "h", "o", "t", "o", "Url">>
KPhoto_url    == <<"p", "h", "o", "t", "o", "_url">>
KPhoto        == <<"p", "h", "o", "t", "o">>
KImages       == <<"images">>
KLocations    == <<"locations">>
KJournalEntries == <<"journal_entries">>
KDailyEntries == <<"daily_entries">>
KDiarySummary == <<"diarySummary">>

\* a slip that starts at the second entry of the list
EntryArraySkippingFirst(entries) ==
    IF entries.t = "array" /\ Len(entries.v) > 0 THEN Tail(entries.v) ELSE <<>>

\* Array.isArray(entries) ? entries : []
EntryArray(entries) == IF entries.t = "array" THEN entries.v ELSE <<>>

\* a slip that copies the photo field without normalizing it
ConversationWithRawPhoto(entry) ==
    [ message       |-> Or(Get(entry, KSummary), Str(<<"Journal Entry">>)),
      response      |-> Or(Or(Get(entry, KDiary), Get(entry, KSummary)),
                           Str(<<"No summary available">>)),
      timestamp     |-> Or(Get(entry, KTimestamp), Str(<<>>)),
      latitude      |-> Get(entry, KLatitude),
      longitude     |-> Get(entry, KLongitude),
      location_name |-> Get(entry, KLocationName),
      photo_url     |-> Or(Or(Or(Get(entry, KPhotoUrl), Get(entry, KPhoto_url)),
                              Get(entry, KPhoto)),
                           Undefined),
      session_id    |-> Or(Get(entry, KSessionId), Str(<<>>)) ]

\* one element of conversations (1403-1413)
ConversationOf(entry) ==
    [ message       |-> Or(Get(entry, KSummary), Str(<<"Journal Entry">>)),
      response      |-> Or(Or(Get(entry, KDiary), Get(entry, KSummary)),
                           Str(<<"No summary available">>)),
      timestamp     |-> Or(Get(entry, KTimestamp), Str(<<>>)),
      latitude      |-> Get(entry, KLatitude),
      longitude     |-> Get(entry, KLongitude),
      location_name |-> Get(entry, KLocationName),
      photo_url     |-> Or(normalizeUrl(Or(Or(Get(entry, KPhotoUrl),
                                              Get(entry, KPhoto_url)),
                                           Get(entry, KPhoto))),
                           Undefined),
      session_id    |-> Or(Get(entry, KSessionId), Str(<<>>)) ]

HasCoordinates(entry) ==
    Truthy(Get(entry, KLatitude)) /\ Truthy(Get(entry, KLongitude))

LocationOf(entry) ==
    [ latitude      |-> Get(entry, KLatitude),
      longitude     |-> Get(entry, KLongitude),
      location_name |-> Or(Get(entry, KLocationName), Str(<<"Unknown Location">>)) ]

\* locations (1415-1421)
LocationsOf(entryArray) == Map(Filter(entryArray, HasCoordinates), LocationOf)

\* images taken from the daily_entries bundle of the date (1426-1435)
BundleImages(dailyEntriesMap, date) ==
    LET bundle == Get(dailyEntriesMap, date)
    IN  IF Truthy(bundle) /\ bundle.t = "object"
           /\ Get(bundle, KImages).t = "array" /\ Len(Get(bundle, KImages).v) > 0
        THEN Filter(Map(Get(bundle, KImages).v, normalizeUrl), Truthy)
        ELSE <<>>

\* /photo/i.test(k)
IsPhotoKey(k) == Includes(ToLowerCase(k), KPhoto)

\* a slip that takes the first photo field without preferring the common keys
extractFirstCandidate(ent) ==
    IF ~Truthy(ent) \/ ent.t # "object" THEN Null
    ELSE LET candidates == Filter(ent.v, LAMBDA c : IsPhotoKey(c.k) /\ Truthy(c.v))
         IN  IF candidates = <<>> THEN Null
             ELSE Or(normalizeUrl(candidates[1].v), Null)

\* extractPhotoFromEntry (1438-1451)
extractPhotoFromEntry(ent) ==
    IF ~Truthy(ent) \/ ent.t # "object" THEN Null
    ELSE LET candidates == Filter(ent.v, LAMBDA c : IsPhotoKey(c.k) /\ Truthy(c.v))
             preferred  == Filter(candidates,
                                  LAMBDA c : c.k \in {KPhoto_url, KPhotoUrl, KPhoto})
         IN  IF candidates = <<>> THEN Null
             ELSE LET pick == IF preferred # <<>> THEN preferred[1] ELSE candidates[1]
                  IN  Or(normalizeUrl(pick.v), Null)

\* images built from the entries of the date (1453-1469)
EntryImages(entryArray) ==
    Filter(Map(entryArray, extractPhotoFromEntry), Truthy)

\* a slip that adds the photos of the entries to those of the bundle
ImagesOfBoth(dailyEntriesMap, date, entryArray) ==
    BundleImages(dailyEntriesMap, date) \o EntryImages(entryArray)

ImagesOf(dailyEntriesMap, date, entryArray) ==
    LET images == BundleImages(dailyEntriesMap, date)
    IN  IF Len(images) = 0 THEN EntryImages(entryArray) ELSE images

\* a slip that accepts a diary of white space only
HasDiaryUntrimmed(e) == Truthy(Get(e, KDiary))

\* e.diary && String(e.diary).trim()
HasDiary(e) == Truthy(Get(e, KDiary)) /\ Trim(Get(e, KDiary).v) # <<>>

\* a slip that joins the pieces with a single line break
DiarySummaryJoinedByNewline(entryArray) ==
    LET diaryEntry == Find(entryArray, HasDiary)
    IN  IF Truthy(diaryEntry) THEN Get(diaryEntry, KDiary)
        ELSE LET pieces == Map(entryArray,
                               LAMBDA e : Or(Or(Get(e, KSummary), Get(e, KResponse)),
                                             Str(<<>>)))
                 kept   == Map(Filter(pieces, Truthy), LAMBDA x : x.v)
             IN  Or(Str(Join(kept, <<"\n">>)), Str(<<>>))

\* diarySummary (1474-1477)
DiarySummaryOf(entryArray) ==
    LET diaryEntry == Find(entryArray, HasDiary)
    IN  IF Truthy(diaryEntry) THEN Get(diaryEntry, KDiary)
        ELSE LET pieces == Map(entryArray,
                               LAMBDA e : Or(Or(Get(e, KSummary), Get(e, KResponse)),
                                             Str(<<>>)))
                 kept   == Map(Filter(pieces, Truthy), LAMBDA x : x.v)
             IN  Or(Str(Join(kept, <<"\n", "\n">>)), Str(<<>>))

\* a slip that keys the bundle by the month of the date
DailyConversationByMonth(dailyEntriesMap, date, entries) ==
    LET entryArray == EntryArray(entries)
    IN  [ date          |-> Str(IF Len(date) >= 7 THEN SubSeq(date, 1, 7) ELSE date),
          conversations |-> Map(entryArray, ConversationOf),
          totalMessages |-> Len(entryArray),
          locations     |-> LocationsOf(entryArray),
          diarySummary  |-> DiarySummaryOf(entryArray),
          images        |-> ImagesOf(dailyEntriesMap, date, entryArray) ]

\* the bundle built for one [date, entries] pair (1399-1486)
DailyConversationOf(dailyEntriesMap, date, entries) ==
    LET entryArray == EntryArray(entries)
    IN  [ date          |-> Str(date),
          conversations |-> Map(entryArray, ConversationOf),
          totalMessages |-> Len(entryArray),
          locations     |-> LocationsOf(entryArray),
          diarySummary  |-> DiarySummaryOf(entryArray),
          images        |-> ImagesOf(dailyEntriesMap, date, entryArray) ]

\* Object.entries(journalData).map(...) before the sort
\* a slip that walks the entries of a date from the last to the first
MappedDaysBackwards(journalData, dailyEntriesMap) ==
    Map(journalData.v,
        LAMBDA p : DailyConversationOf(
                       dailyEntriesMap, p.k,
                       IF p.v.t = "array"
                       THEN Arr([i \in 1..Len(p.v.v) |-> p.v.v[Len(p.v.v) + 1 - i]])
                       ELSE p.v))

MappedDays(journalData, dailyEntriesMap) ==
    Map(journalData.v, LAMBDA p : DailyConversationOf(dailyEntriesMap, p.k, p.v))

\* entry.summary (1404) and Object.keys(e) (1460) throw on a null entry
TransformThrows(journalData) ==
    \E i \in 1..Len(journalData.v) :
        \E j \in 1..Len(EntryArray(journalData.v[i].v)) :
            ThrowsOnRead(EntryArray(journalData.v[i].v)[j])

(***************************************************************************)
(* Inputs of normalizeUrl: the configured base URL and photo values.       *)
(***************************************************************************)
DefaultBase == HttpPrefix \o <<"10.127.199.242:8000">>
ExampleBase == HttpsPrefix \o <<"api.example.com">>

\* apiClient.defaults.baseURL: unset, the built-in default, a configured
\* URL, and a configured URL written with a trailing slash.
BaseUrls ==
    { Undefined, Str(DefaultBase), Str(ExampleBase), Str(ExampleBase \o <<"/">>) }

UrlPieces ==
    { <<" ">>, <<"/">>, HttpPrefix, HttpsPrefix, PlaceholderToken,
      <<"P", "l", "a", "c", "e", "H", "o", "l", "d", "e", "r", "_">>,
      <<"I", "m", "a", "g", "e", "_", "U", "R", "L">>,
      <<"/", "uploads">>, <<"x.jpg">> }

RECURSIVE Flatten(_)
Flatten(ps) == IF ps = <<>> THEN <<>> ELSE Head(ps) \o Flatten(Tail(ps))

UrlStrings ==
    { Flatten(ps) : ps \in UNION { [1..n -> UrlPieces] : n \in 0..MaxPieces } }

UrlArgs == { Undefined, Null } \cup { Str(s) : s \in UrlStrings }

(***************************************************************************)
(* Inputs of loadConversationData: what the four journal endpoints answer. *)
(***************************************************************************)
Rejected       == [t |-> "rejected", data |-> Undefined]
Response(data) == [t |-> "response", data |-> data]

Prop(key, value) == [k |-> key, v |-> value]

\* an object literal; a property whose value is undefined is left out
Object(ps) == Obj(SelectSeq(ps, LAMBDA p : p.v # Undefined))

Day1 == <<"2", "0", "2", "4", "-", "0", "5", "-", "0", "1">>
Day2 == <<"2", "0", "2", "4", "-", "0", "4", "-", "3", "0">>
Day3 == <<"2", "0", "2", "3", "-", "1", "2", "-", "3", "1">>

DateKeys == { Day1, Day2, Day3, <<"unknown">> }

InjectiveSeqs(S, n) ==
    { s \in [1..n -> S] : \A i, j \in 1..n : i # j => s[i] # s[j] }

\* the journal_entries mapping with keys ks and the entry lists es
JournalOf(ks, es) == Obj([i \in 1..Len(ks) |-> Prop(ks[i], Arr(es[i]))])

Stamp1 == Day1 \o <<"T", "10:00:00">>

BasicEntries ==
    { Object(<<Prop(KTimestamp, Str(Stamp1)), Prop(KSummary, Str(<<"Saw the tower">>))>>) }

\* entries without a diary, and entries with one
TextEntries ==
    { Object(<<Prop(KSummary, s), Prop(KResponse, r)>>) :
        s \in { Undefined, Str(<<>>), Str(<<"Saw the tower">>) },
        r \in { Undefined, Str(<<"It was great">>) } }
    \cup
    { Object(<<Prop(KSummary, s), Prop(KDiary, d)>>) :
        s \in { Undefined, Str(<<"Saw the tower">>) },
        d \in { Str(<<" ">>), Str(<<"A">>), Str(<<" ", "B">>) } }

\* entries with and without coordinates
GeoEntries ==
    { Object(<<Prop(KLatitude, la), Prop(KLongitude, lo)>>) :
        la \in { Undefined, Num(0), Num(48) },
        lo \in { Undefined, Num(0), Num(2) } }
    \cup
    { Object(<<Prop(KLatitude, Num(48)), Prop(KLongitude, Num(2)),
               Prop(KLocationName, Str(<<"Paris">>))>>) }

AbsolutePhoto  == HttpsPrefix \o <<"cdn.example.com", "/", "a.jpg">>
AbsolutePhoto2 == HttpPrefix \o <<"cdn.example.com", "/", "b.jpg">>
RelativePhoto  == <<"/", "uploads", "/", "x.jpg">>
BarePhoto      == <<"x.jpg">>
TokenPhoto     == HttpsPrefix \o <<"cdn.example.com", "/">>
                     \o <<"P", "l", "a", "c", "e", "H", "o", "l", "d", "e", "r", "_">>
                     \o <<"I", "m", "a", "g", "e", "_", "U", "R", "L">> \o <<".png">>

PhotoValues ==
    { <<>>, <<" ">>, PlaceholderToken, TokenPhoto, AbsolutePhoto, RelativePhoto,
      BarePhoto }

KCoverPhoto == <<"cover", "P", "h", "o", "t", "o">>

PhotoEntries ==
    { Object(<<Prop(KPhoto_url, Str(v))>>) : v \in PhotoValues }
    \cup
    { Object(<<>>),
      Object(<<Prop(KCoverPhoto, Str(AbsolutePhoto2))>>),
      Object(<<Prop(KCoverPhoto, Str(AbsolutePhoto2)), Prop(KPhoto, Str(RelativePhoto))>>),
      Object(<<Prop(KPhoto, Str(<<>>)), Prop(KPhotoUrl, Str(AbsolutePhoto))>>) }

DayBundle(images) == Obj(<<Prop(Day1, Obj(<<Prop(KImages, Arr(images))>>))>>)

\* answers of GET /journal/daily_entries
DailyEntriesResponses ==
    { Rejected, Response(Obj(<<>>)) }
    \cup
    { Response(Obj(<<Prop(KDailyEntries, m)>>)) :
        m \in { Obj(<<>>), DayBundle(<<>>),
                DayBundle(<<Str(AbsolutePhoto), Str(RelativePhoto)>>),
                DayBundle(<<Str(PlaceholderToken)>>),
                DayBundle(<<Str(AbsolutePhoto), Str(AbsolutePhoto)>>) } }

SampleLocation ==
    Obj(<<Prop(<<"id">>, Str(<<"loc1">>)), Prop(KLatitude, Num(48)),
          Prop(KLongitude, Num(2)), Prop(<<"date">>, Str(Day1))>>)

\* answers of GET /journal/locations
LocationsResponses ==
    { Rejected, Response(Obj(<<>>)),
      Response(Obj(<<Prop(KLocations, Arr(<<SampleLocation>>))>>)) }

EntriesResponse(journalData) == Response(Obj(<<Prop(KJournalEntries, journalData)>>))

\* journals whose values are not lists of records
ShapeJournals ==
    { Obj(<<Prop(Day1, Null)>>),
      Obj(<<Prop(Day1, Obj(<<>>)), Prop(Day2, Arr(<<Object(<<>>)>>))>>),
      Obj(<<Prop(Day1, Arr(<<Null>>))>>),
      Obj(<<Prop(Day2, Arr(<<Object(<<>>)>>)), Prop(Day1, Arr(<<Object(<<>>), Null>>))>>) }

SampleJournal ==
    Obj(<<Prop(Day1, Arr(<<Object(<<Prop(KSummary, Str(<<"Saw the tower">>))>>)>>))>>)

(***************************************************************************)
(* The journal screen.                                                     *)
(***************************************************************************)
\* response.data && response.data[key]
DataField(resp, key) ==
    IF Truthy(resp.data) THEN Get(resp.data, key) ELSE Undefined

\* dailyEntriesMap as left by the inner try/catch (1370-1379)
DailyEntriesMapOf(entriesResp) ==
    IF entriesResp = Rejected THEN Obj(<<>>)
    ELSE Or(DataField(entriesResp, KDailyEntries), Obj(<<>>))

DailyEntriesMap == DailyEntriesMapOf(respDailyEntries)

\* conversationLocations after the /journal/locations step (1359-1363)
LocationsAfter(locationsResponse, current) ==
    IF Truthy(DataField(locationsResponse, KLocations))
    THEN DataField(locationsResponse, KLocations).v
    ELSE current

LoadedLocations == LocationsAfter(respLocations, conversationLocations)

\* a slip that renders the summary without the guard
ListSummaryTextUnguarded(item) == item.diarySummary

\* the summary line of one list item (renderDailyConversationItem, 1672-1676)
ListSummaryText(item) ==
    IF Truthy(item.diarySummary) THEN item.diarySummary
    ELSE Str(<<"No summary yet for this day">>)

\* the FlatList of the list view, rendered from dailyConversations
RenderList(bundles) == Map(bundles, ListSummaryText)

\* loadConversationData (1350-1496) as run when the screen is mounted, from
\* its first await to its end; React renders the list again when
\* setDailyConversations has been called
LoadConversationData ==
    /\ loadOutcome = "none"
    /\ IF respDebugUser = Rejected \/ respLocations = Rejected
       THEN /\ loadOutcome' = "caught"
            /\ UNCHANGED <<conversationLocations, dailyConversations>>
       ELSE /\ conversationLocations' = LoadedLocations
            /\ IF respEntries = Rejected
               THEN /\ loadOutcome' = "caught"
                    /\ UNCHANGED dailyConversations
               ELSE IF ~Truthy(DataField(respEntries, KJournalEntries))
               THEN /\ loadOutcome' = "done"
                    /\ UNCHANGED dailyConversations
               ELSE IF TransformThrows(DataField(respEntries, KJournalEntries))
               THEN /\ loadOutcome' = "caught"
                    /\ UNCHANGED dailyConversations
               ELSE /\ loadOutcome' = "done"
                    /\ dailyConversations' \in
                           SortOutcomes(MappedDays(DataField(respEntries, KJournalEntries),
                                                   DailyEntriesMap))
    /\ listView' = RenderList(dailyConversations')
    /\ UNCHANGED <<baseURL, urlVars, netVars, dayView, pinVars, appVars>>

\* the summary line of JournalDayScreen (JournalDayScreen.tsx 16, 31);
\* the parameter default '' replaces an undefined diarySummary
DaySummaryText(params) ==
    LET diarySummary ==
            IF ~Truthy(params) \/ Get(params, KDiarySummary) = Undefined
            THEN Str(<<>>) ELSE Get(params, KDiarySummary)
    IN  Or(diarySummary, Str(<<"No summary available for this day.">>))

\* JournalDayScreen opened without parameters or for one of the bundles
JournalDayScreen ==
    /\ \E params \in { Undefined } \cup
                     { Obj(<<Prop(KDiarySummary, dailyConversations[i].diarySummary)>>) :
                         i \in 1..Len(dailyConversations) } :
           dayView' = [params |-> params, summaryText |-> DaySummaryText(params)]
    /\ UNCHANGED <<baseURL, urlVars, netVars, conversationLocations,
                   dailyConversations, loadOutcome, listView, pinVars,
                   appVars>>

NoDayView == [params |-> Undefined, summaryText |-> Undefined]

\* the state of the screen when it is mounted
InitScreen ==
    /\ conversationLocations = <<>>
    /\ dailyConversations = <<>>
    /\ loadOutcome = "none"
    /\ listView = <<>>
    /\ dayView = NoDayView
    /\ urlArg = Undefined
    /\ urlOut = Undefined
    /\ urlOut2 = Undefined
    /\ urlPc = "idle"
    /\ NoPins
    /\ NoApp

AnsweredLocations == Response(Obj(<<Prop(KLocations, Arr(<<SampleLocation>>))>>))

\* every request answered with journalData, base URL and daily_entries as given
InitAnswered(journalData, base, daily) ==
    /\ baseURL = base
    /\ respDebugUser = Response(Obj(<<>>))
    /\ respLocations = AnsweredLocations
    /\ respEntries = EntriesResponse(journalData)
    /\ respDailyEntries = daily

NoDailyEntries == Response(Obj(<<>>))

\* several days in any key order, each with one or with MaxEntries entries
InitDays ==
    \E n \in 0..MaxDays : \E ks \in InjectiveSeqs(DateKeys, n) :
        \E es \in [1..n -> UNION { [1..m -> BasicEntries] : m \in {1, MaxEntries} }] :
            InitAnswered(JournalOf(ks, es), Str(DefaultBase), NoDailyEntries)

\* one day whose entries differ in their summary, diary and response texts
InitTexts ==
    \E m \in 0..MaxEntries : \E es \in [1..m -> TextEntries] :
        InitAnswered(JournalOf(<<Day1>>, <<es>>), Str(DefaultBase), NoDailyEntries)

\* one day whose entries differ in their coordinates
InitGeo ==
    \E m \in 0..MaxEntries : \E es \in [1..m -> GeoEntries] :
        InitAnswered(JournalOf(<<Day1>>, <<es>>), Str(DefaultBase), NoDailyEntries)

\* one day whose entries differ in their photo fields, under each base URL
\* and under each answer of /journal/daily_entries
InitPhotos ==
    \E m \in 0..MaxEntries : \E es \in [1..m -> PhotoEntries] :
        \/ \E b \in BaseUrls :
               InitAnswered(JournalOf(<<Day1>>, <<es>>), b, NoDailyEntries)
        \/ \E d \in DailyEntriesResponses :
               InitAnswered(JournalOf(<<Day1>>, <<es>>), Str(DefaultBase), d)

\* values that are not lists of records
InitShapes ==
    \E j \in ShapeJournals : InitAnswered(j, Str(DefaultBase), NoDailyEntries)

\* requests that fail or answer without the expected field
InitNetwork ==
    /\ baseURL = Str(DefaultBase)
    /\ respDebugUser \in { Rejected, Response(Obj(<<>>)) }
    /\ respLocations \in LocationsResponses
    /\ respEntries \in { Rejected, Response(Undefined), Response(Obj(<<>>)),
                         EntriesResponse(SampleJournal) }
    /\ respDailyEntries \in { Rejected, NoDailyEntries }

Init ==
    /\ InitScreen
    /\ InitDays \/ InitTexts \/ InitGeo \/ InitPhotos \/ InitShapes \/ InitNetwork

Next ==
    \/ LoadConversationData
    \/ JournalDayScreen

Spec == Init /\ [][Next]_vars

(***************************************************************************)
(* normalizeUrl on its own: a caller normalizes a value, then normalizes   *)
(* the result again.                                                       *)
(***************************************************************************)
InitUrl ==
    /\ baseURL \in BaseUrls
    /\ urlArg \in UrlArgs
    /\ urlOut = Undefined
    /\ urlOut2 = Undefined
    /\ urlPc = "start"
    /\ respDebugUser = Rejected
    /\ respLocations = Rejected
    /\ respEntries = Rejected
    /\ respDailyEntries = Rejected
    /\ conversationLocations = <<>>
    /\ dailyConversations = <<>>
    /\ loadOutcome = "none"
    /\ listView = <<>>
    /\ dayView = NoDayView
    /\ NoPins
    /\ NoApp

NormalizeUrlCall ==
    /\ urlPc = "start"
    /\ urlOut' = normalizeUrl(urlArg)
    /\ urlPc' = "once"
    /\ UNCHANGED <<baseURL, urlArg, urlOut2, netVars, journalVars, pinVars,
                   appVars>>

NormalizeUrlAgain ==
    /\ urlPc = "once"
    /\ urlOut2' = normalizeUrl(urlOut)
    /\ urlPc' = "twice"
    /\ UNCHANGED <<baseURL, urlArg, urlOut, netVars, journalVars, pinVars,
                   appVars>>

NextUrl == NormalizeUrlCall \/ NormalizeUrlAgain

SpecUrl == InitUrl /\ [][NextUrl]_vars

(***************************************************************************)
(* The pins list: pins are added, categories are toggled, the sort option  *)
(* is changed and the position of the user arrives; the list is rendered   *)
(* from getFilteredPins() after each of them.                              *)
(***************************************************************************)
\* const availableCategories = ['food', 'drink', 'item']
availableCategories == <<"food", "drink", "item">>

Pin(id, category, lat, lon, createdAt) ==
    [ id |-> id, category |-> category, latitude |-> lat, longitude |-> lon,
      createdAt |-> createdAt ]

\* pins that POST /pins may answer; coordinates in thousandths of a degree
PinCatalog ==
    { Pin("p1", "food", 0, 100, Str(Day1)),
      Pin("p2", "drink", 0, 0, Str(Day2)),
      Pin("p3", "item", 0, 200, Undefined),
      Pin("p4", "food", 100, 0, Str(Day1)),
      Pin("p5", "other", 0, 50, Str(Day3)) }

\* positions of the user
UserLocations ==
    { [latitude |-> 0, longitude |-> 0], [latitude |-> 0, longitude |-> 200] }

\* radii of the list, in miles
Radii == {5, 10}

\* data={getFilteredPins()} with the state after the step
RenderPins ==
    /\ categoryStep' = CategoryFilter(droppedPins', selectedCategories')
    /\ filteredPins' = getFilteredPins(droppedPins', selectedCategories',
                                       maxDistance', location', sortOption')

\* addPin(createdPin) (567; usePins: setPins(prev => [...prev, pin]))
AddPin ==
    /\ Len(droppedPins) < MaxPins
    /\ \E pin \in PinCatalog :
           /\ \A i \in 1..Len(droppedPins) : droppedPins[i].id # pin.id
           /\ droppedPins' = Append(droppedPins, pin)
    /\ UNCHANGED <<selectedCategories, maxDistance, location, sortOption>>
    /\ RenderPins
    /\ UNCHANGED <<baseURL, urlVars, netVars, journalVars, appVars>>

\* toggleCategory (617-623)
toggleCategory ==
    /\ \E i \in 1..Len(availableCategories) :
           LET category == availableCategories[i]
           IN  selectedCategories' =
                   IF IncludesCategory(selectedCategories, category)
                   THEN SelectSeq(selectedCategories, LAMBDA c : c # category)
                   ELSE Append(selectedCategories, category)
    /\ UNCHANGED <<droppedPins, maxDistance, location, sortOption>>
    /\ RenderPins
    /\ UNCHANGED <<baseURL, urlVars, netVars, journalVars, appVars>>

\* the sort button (860-865)
CycleSortOption ==
    /\ sortOption' = CASE sortOption = "none"     -> "distance"
                       [] sortOption = "distance" -> "time"
                       [] sortOption = "time"     -> "none"
    /\ UNCHANGED <<droppedPins, selectedCategories, maxDistance, location>>
    /\ RenderPins
    /\ UNCHANGED <<baseURL, urlVars, netVars, journalVars, appVars>>

\* setLocation(loc.coords) (474)
SetLocation ==
    /\ location = Null
    /\ location' \in UserLocations
    /\ UNCHANGED <<droppedPins, selectedCategories, maxDistance, sortOption>>
    /\ RenderPins
    /\ UNCHANGED <<baseURL, urlVars, netVars, journalVars, appVars>>

\* the screen when it is mounted: no pins (usePins), no category, no
\* position, sort option 'none'; the radius is a parameter of the list
InitPins ==
    /\ droppedPins = <<>>
    /\ selectedCategories = <<>>
    /\ maxDistance \in Radii
    /\ location = Null
    /\ sortOption = "none"
    /\ categoryStep = <<>>
    /\ filteredPins = <<>>
    /\ baseURL = Str(DefaultBase)
    /\ urlArg = Undefined
    /\ urlOut = Undefined
    /\ urlOut2 = Undefined
    /\ urlPc = "idle"
    /\ respDebugUser = Rejected
    /\ respLocations = Rejected
    /\ respEntries = Rejected
    /\ respDailyEntries = Rejected
    /\ conversationLocations = <<>>
    /\ dailyConversations = <<>>
    /\ loadOutcome = "none"
    /\ listView = <<>>
    /\ dayView = NoDayView
    /\ NoApp

\* no request of the mounted journal screen has an answer to give
NoRequests ==
    /\ urlArg = Undefined
    /\ urlOut = Undefined
    /\ urlOut2 = Undefined
    /\ urlPc = "idle"
    /\ respDebugUser = Rejected
    /\ respLocations = Rejected
    /\ respEntries = Rejected
    /\ respDailyEntries = Rejected

\* the journal screen with nothing loaded
NoJournal ==
    /\ conversationLocations = <<>>
    /\ dailyConversations = <<>>
    /\ loadOutcome = "none"
    /\ listView = <<>>
    /\ dayView = NoDayView

NextPins == AddPin \/ toggleCategory \/ CycleSortOption \/ SetLocation

SpecPins == InitPins /\ [][NextPins]_vars

(***************************************************************************)
(* Loading and editing on the journal screen.  loadConversationData        *)
(* (Register.tsx 1350-1496) is followed through its four awaits, so that   *)
(* several runs can overlap: the run of the mount effect, the runs of the  *)
(* focus listener and of onRefresh, and the run awaited by handleSaveEdit. *)
(* The handlers of the detail modal are those of Register.tsx 1550-1603,   *)
(* which JournalScreen.tsx 242-294 holds word for word; an entry is opened *)
(* from the list (JournalScreen.tsx 304-319).                              *)
(*                                                                         *)
(* serverJournal is the journal_entries mapping kept by the backend.  A    *)
(* run leaves loads when its promise settles; the run started last is      *)
(* marked newest, and latestResult keeps what it passed to                 *)
(* setDailyConversations.  An object built from the list remembers in      *)
(* index which conversation of its day was pressed; the code does not read *)
(* it.  handleSaveEdit writes to the object it closed over: saveCall.held  *)
(* tells whether selectedConversation still is that object.                *)
(***************************************************************************)
Stamp2 == Day1 \o <<"T", "11:30:00">>

\* an entry of the journal as the backend stores it
StoredEntry(timestamp, summary, diary) ==
    Object(<<Prop(KTimestamp, timestamp), Prop(KSummary, Str(summary)),
             Prop(KDiary, Str(diary))>>)

\* journals of one day with two entries: distinct timestamps, and the
\* same timestamp twice
EditJournals ==
    { JournalOf(<<Day1>>,
                << <<StoredEntry(ts[1], <<"Tower">>, <<"Climbed it">>),
                     StoredEntry(ts[2], <<"Museum">>, <<"Rainy day">>)>> >>) :
        ts \in { <<Str(Stamp1), Str(Stamp2)>>, <<Str(Stamp1), Str(Stamp1)>> } }

\* what the user types into the two text inputs of the modal
TypedTexts == { Str(<<"Edited">>) }

NoSave == [pc |-> "idle"]

\* a template literal `${v}`
TemplateText(v) ==
    IF v.t = "string" THEN v.v
    ELSE IF v.t = "undefined" THEN <<"undefined">>
    ELSE <<"null">>

\* the path of the PATCH request (1574)
PatchPath(timestamp) == <<"/journal/entries/">> \o TemplateText(timestamp)

\* PATCH /journal/entries/<key> in the backend: the entries of the journal
\* that the key names
PatchTargets(journal, path) ==
    { <<d, i>> \in UNION { { <<d, i>> : i \in 1..Len(EntryArray(journal.v[d].v)) } :
                             d \in 1..Len(journal.v) } :
        PatchPath(Or(Get(EntryArray(journal.v[d].v)[i], KTimestamp), Str(<<>>))) = path }

\* the entry with the two fields of the request body written over
PatchedEntry(entry, body) ==
    Obj([ k \in 1..Len(entry.v) |->
            IF entry.v[k].k = KSummary THEN Prop(KSummary, body.summary)
            ELSE IF entry.v[k].k = KDiary THEN Prop(KDiary, body.diary)
            ELSE entry.v[k] ])

\* the journal the backend holds after a PATCH that succeeded: the key is
\* looked up as a unique key, and the first entry that carries it is
\* rewritten
PatchedJournal(journal, path, body) ==
    LET hit == CHOOSE s \in PatchTargets(journal, path) :
                   \A o \in PatchTargets(journal, path) :
                       s[1] < o[1] \/ (s[1] = o[1] /\ s[2] <= o[2])
    IN  Obj([ d \in 1..Len(journal.v) |->
                Prop(journal.v[d].k,
                     Arr([ i \in 1..Len(EntryArray(journal.v[d].v)) |->
                             IF <<d, i>> = hit
                             THEN PatchedEntry(journal.v[d].v.v[i], body)
                             ELSE journal.v[d].v.v[i] ])) ])

\* the paths of the four journal endpoints, in the order of the awaits
PathDebugUser    == "/journal/debug/user"
PathLocations    == "/journal/locations"
PathEntries      == "/journal/entries"
PathDailyEntries == "/journal/daily_entries"

\* loadConversationData up to its first await (1350-1355)
StartedLoad(origin) ==
    [origin |-> origin, pc |-> PathDebugUser, sent |-> <<PathDebugUser>>,
     journalResponse |-> Undefined, newest |-> TRUE]

\* loads with one more run, which now is the one started last
WithLoad(origin) ==
    Append([i \in 1..Len(loads) |-> [loads[i] EXCEPT !.newest = FALSE]],
           StartedLoad(origin))

\* loads without the run that settled
WithoutLoad(i) ==
    [j \in 1..Len(loads) - 1 |-> IF j < i THEN loads[j] ELSE loads[j + 1]]

\* the load runs that may still start; a save that waits for its PATCH
\* keeps one for the run it awaits
CanStartLoad ==
    Len(loads) + (IF saveCall.pc = "patch" THEN 1 ELSE 0) < MaxLoads

\* what runs when the promise of a load run settles: the then of onRefresh
\* (1602) or the rest of handleSaveEdit (1584-1590)
LoadSettles(origin) ==
    /\ refreshing' = IF origin = "refresh" THEN FALSE ELSE refreshing
    /\ isEditing' = IF origin = "save" THEN FALSE ELSE isEditing
    /\ isSaving' = IF origin = "save" THEN FALSE ELSE isSaving
    /\ saveCall' = IF origin = "save" THEN NoSave ELSE saveCall

\* the variables no step of a load run writes
outsideLoad ==
    <<baseURL, urlVars, netVars, loadOutcome, dayView, pinVars, serverJournal,
      selectedConversation, showConversationModal, editableMessage,
      editableResponse, saves, homeVars, micVars, authVars>>

\* the variables no handler of the detail modal writes
outsideModal ==
    <<baseURL, urlVars, netVars, journalVars, pinVars, homeVars, micVars, authVars>>

\* what only handleSaveEdit and the answer of its PATCH write
saveVars == <<serverJournal, saves>>

LoadCaughtRetrying(i) ==
    /\ loads' = [loads EXCEPT ![i].sent = Append(@, loads[i].pc)]
    /\ UNCHANGED <<refreshing, isEditing, isSaving, saveCall, latestResult>>

\* a request that fails throws into the catch of 1493, which ends the run
LoadCaught(i) ==
    /\ loads' = WithoutLoad(i)
    /\ LoadSettles(loads[i].origin)
    /\ UNCHANGED latestResult

\* a request that failed is not sent again
LoadAdvances(i, path) ==
    /\ loads' = [loads EXCEPT ![i].pc = path, ![i].sent = Append(@, path)]
    /\ UNCHANGED <<refreshing, isEditing, isSaving, saveCall, latestResult>>

\* GET /journal/debug/user answers (1355)
DebugUserAnswers ==
    \E i \in 1..Len(loads) :
        /\ loads[i].pc = PathDebugUser
        /\ LoadCaught(i) \/ LoadAdvances(i, PathLocations)
        /\ UNCHANGED <<conversationLocations, dailyConversations, listView, outsideLoad>>

\* GET /journal/locations answers (1359-1363)
LocationsAnswers ==
    \E i \in 1..Len(loads) :
        /\ loads[i].pc = PathLocations
        /\ \/ LoadCaught(i) /\ UNCHANGED conversationLocations
           \/ /\ LoadAdvances(i, PathEntries)
              /\ conversationLocations' =
                     LocationsAfter(Response(Obj(<<Prop(KLocations, Arr(<<SampleLocation>>))>>)),
                                    conversationLocations)
        /\ UNCHANGED <<dailyConversations, listView, outsideLoad>>

\* GET /journal/entries answers what the backend holds at this moment (1366)
EntriesAnswers ==
    \E i \in 1..Len(loads) :
        /\ loads[i].pc = PathEntries
        /\ \/ LoadCaught(i)
           \/ /\ loads' = [loads EXCEPT ![i].pc = PathDailyEntries,
                                        ![i].sent = Append(@, PathDailyEntries),
                                        ![i].journalResponse = EntriesResponse(serverJournal)]
              /\ UNCHANGED <<refreshing, isEditing, isSaving, saveCall, latestResult>>
        /\ UNCHANGED <<conversationLocations, dailyConversations, listView, outsideLoad>>

\* GET /journal/daily_entries answers or fails, and the run goes on to its
\* end (1370-1495)
DailyEntriesAnswers ==
    \E i \in 1..Len(loads) :
        LET journalData == DataField(loads[i].journalResponse, KJournalEntries) IN
        /\ loads[i].pc = PathDailyEntries
        /\ IF ~Truthy(journalData) \/ TransformThrows(journalData)
           THEN UNCHANGED <<dailyConversations, latestResult>>
           ELSE \E daily \in { Rejected, NoDailyEntries } :
                \E sorted \in SortOutcomes(MappedDays(journalData,
                                                      DailyEntriesMapOf(daily))) :
                    /\ dailyConversations' = sorted
                    /\ latestResult' = IF loads[i].newest THEN sorted ELSE latestResult
        /\ loads' = WithoutLoad(i)
        /\ listView' = RenderList(dailyConversations')
        /\ LoadSettles(loads[i].origin)
        /\ UNCHANGED <<conversationLocations, outsideLoad>>

\* the focus listener (1341-1347)
onFocus ==
    /\ Len(conversationLocations) > 0 \/ Len(dailyConversations) > 0
    /\ CanStartLoad
    /\ loads' = WithLoad("focus")
    /\ latestResult' = Undefined
    /\ UNCHANGED <<saveVars, selectedConversation, showConversationModal,
                   isEditing, editableMessage, editableResponse, isSaving,
                   saveCall, refreshing, outsideModal>>

\* onRefresh (1600-1603), from the RefreshControl of the list
onRefresh ==
    /\ ~showConversationModal
    /\ CanStartLoad
    /\ refreshing' = TRUE
    /\ loads' = WithLoad("refresh")
    /\ latestResult' = Undefined
    /\ UNCHANGED <<saveVars, selectedConversation, showConversationModal,
                   isEditing, editableMessage, editableResponse, isSaving,
                   saveCall, outsideModal>>

\* the ConversationLocation built from a conversation of the list
\* (JournalScreen.tsx 306-316)
PressedConversation(item, k) ==
    LET conversation == item.conversations[k] IN
    [ id            |-> Str(item.date.v \o <<"_">> \o TemplateText(conversation.timestamp)),
      latitude      |-> Or(conversation.latitude, Num(0)),
      longitude     |-> Or(conversation.longitude, Num(0)),
      location_name |-> Or(conversation.location_name, Str(<<"Journal Entry">>)),
      message       |-> conversation.message,
      response      |-> conversation.response,
      photo_url     |-> conversation.photo_url,
      timestamp     |-> conversation.timestamp,
      date          |-> item.date,
      index         |-> k ]

\* handleConversationPress (JournalScreen.tsx 304-319); the list shows the
\* first three conversations of a day (341)
handleConversationPress ==
    /\ ~showConversationModal
    /\ \E d \in 1..Len(dailyConversations) :
       \E k \in 1..Len(dailyConversations[d].conversations) :
           /\ k <= 3
           /\ selectedConversation' =
                  PressedConversation(dailyConversations[d], k)
    /\ showConversationModal' = TRUE
    /\ UNCHANGED <<saveVars, loads, isEditing, editableMessage,
                   editableResponse, isSaving, saveCall, refreshing,
                   latestResult, outsideModal>>

\* handleEditPress (1559-1565); the Edit button is part of the modal while
\* it shows an entry outside edit mode
handleEditPress ==
    /\ showConversationModal /\ ~isEditing
    /\ IF selectedConversation # Null
       THEN /\ editableMessage' = selectedConversation.message
            /\ editableResponse' = selectedConversation.response
            /\ isEditing' = TRUE
       ELSE UNCHANGED <<editableMessage, editableResponse, isEditing>>
    /\ UNCHANGED <<saveVars, loads, selectedConversation,
                   showConversationModal, isSaving, saveCall, refreshing,
                   latestResult, outsideModal>>

\* onChangeText of the two text inputs shown in edit mode
onChangeText ==
    /\ showConversationModal /\ isEditing /\ selectedConversation # Null
    /\ \E text \in TypedTexts :
           \/ editableMessage' = text /\ UNCHANGED editableResponse
           \/ editableResponse' = text /\ UNCHANGED editableMessage
    /\ UNCHANGED <<saveVars, loads, selectedConversation,
                   showConversationModal, isEditing, isSaving, saveCall,
                   refreshing,
                   latestResult, outsideModal>>

\* handleSaveEdit up to its first await (1567-1577): the PATCH request is
\* sent with the values the handler closed over; the Save button is shown
\* in edit mode and disabled while isSaving
handleSaveEdit ==
    /\ showConversationModal /\ isEditing /\ ~isSaving
    /\ saveCall.pc = "idle"
    /\ Len(loads) < MaxLoads
    /\ saves < MaxSaves
    /\ saves' = saves + 1
    /\ selectedConversation # Null
    /\ isSaving' = TRUE
    /\ saveCall' = [ pc     |-> "patch",
                     target |-> selectedConversation,
                     held   |-> TRUE,
                     path   |-> PatchPath(selectedConversation.timestamp),
                     body   |-> [summary |-> editableMessage,
                                 diary   |-> editableResponse] ]
    /\ UNCHANGED <<serverJournal, loads, selectedConversation,
                   showConversationModal, isEditing, editableMessage,
                   editableResponse, refreshing,
                   latestResult, outsideModal>>

\* a slip that writes the two fields before the request has answered
AfterPatchOptimistic(conversation, body, fulfilled) ==
    [conversation EXCEPT !.message = body.summary, !.response = body.diary]

\* the object handleSaveEdit closed over, after the PATCH has answered
\* (1580-1581)
AfterPatch(conversation, body, fulfilled) ==
    IF fulfilled
    THEN [conversation EXCEPT !.message = body.summary, !.response = body.diary]
    ELSE conversation

\* the PATCH answers: when it failed, catch and finally (1586-1591); when it
\* succeeded, the object is written and loadConversationData is awaited
\* (1580-1582)
PatchAnswers ==
    /\ saveCall.pc = "patch"
    /\ \E fulfilled \in { ok \in BOOLEAN :
                            ok => PatchTargets(serverJournal, saveCall.path) # {} } :
        /\ IF fulfilled
           THEN /\ serverJournal' =
                       PatchedJournal(serverJournal, saveCall.path, saveCall.body)
                /\ loads' = WithLoad("save")
                /\ latestResult' = Undefined
                /\ saveCall' = [saveCall EXCEPT !.pc = "reload"]
                /\ UNCHANGED isSaving
           ELSE /\ isSaving' = FALSE
                /\ saveCall' = NoSave
                /\ UNCHANGED <<saveVars, loads, latestResult>>
        /\ selectedConversation' =
               IF saveCall.held
               THEN AfterPatch(selectedConversation, saveCall.body, fulfilled)
               ELSE selectedConversation
    /\ UNCHANGED <<showConversationModal, isEditing, editableMessage,
                   editableResponse, refreshing, saves, outsideModal>>

\* handleCancelEdit (1594-1598); the Cancel button is disabled while isSaving
handleCancelEdit ==
    /\ showConversationModal /\ isEditing /\ ~isSaving
    /\ isEditing' = FALSE
    /\ editableMessage' = Str(<<>>)
    /\ editableResponse' = Str(<<>>)
    /\ UNCHANGED <<saveVars, loads, selectedConversation,
                   showConversationModal, isSaving, saveCall, refreshing,
                   latestResult, outsideModal>>

\* a slip that closes the modal without leaving edit mode
CloseKeepingEditMode ==
    /\ showConversationModal
    /\ showConversationModal' = FALSE
    /\ selectedConversation' = Null
    /\ editableMessage' = Str(<<>>)
    /\ editableResponse' = Str(<<>>)
    /\ saveCall' = IF saveCall.pc = "idle" THEN saveCall
                   ELSE [saveCall EXCEPT !.held = FALSE]
    /\ UNCHANGED <<saveVars, loads, isEditing, isSaving, refreshing,
                   latestResult, outsideModal>>

\* handleCloseConversationDetail (1550-1557): the close button, the back
\* button and the swipe down, none of which isSaving disables
handleCloseConversationDetail ==
    /\ showConversationModal
    /\ showConversationModal' = FALSE
    /\ selectedConversation' = Null
    /\ isEditing' = FALSE
    /\ editableMessage' = Str(<<>>)
    /\ editableResponse' = Str(<<>>)
    /\ saveCall' = IF saveCall.pc = "idle" THEN saveCall
                   ELSE [saveCall EXCEPT !.held = FALSE]
    /\ UNCHANGED <<saveVars, loads, isSaving, refreshing, latestResult,
                   outsideModal>>

\* the screen when its mount effect (1324-1337) has started the first run
\* the journal screen right after its mount effect started the first load,
\* over one of the given journals of the backend
MountedOver(journals) ==
    /\ serverJournal \in journals
    /\ loads = <<StartedLoad("mount")>>
    /\ selectedConversation = Null
    /\ showConversationModal = FALSE
    /\ isEditing = FALSE
    /\ editableMessage = Str(<<>>)
    /\ editableResponse = Str(<<>>)
    /\ isSaving = FALSE
    /\ saveCall = NoSave
    /\ refreshing = FALSE
    /\ latestResult = Undefined
    /\ saves = 0
    /\ baseURL = Str(DefaultBase)
    /\ NoRequests
    /\ NoJournal
    /\ NoPins
    /\ NoHome
    /\ NoMic
    /\ NoAuth

InitEdit == MountedOver(EditJournals)

\* the detail modal and its edit flow; the only loads are the one of the mount
\* effect and the one each save awaits
NextEdit ==
    \/ DebugUserAnswers \/ LocationsAnswers \/ EntriesAnswers \/ DailyEntriesAnswers
    \/ handleConversationPress
    \/ handleEditPress \/ onChangeText \/ handleSaveEdit \/ PatchAnswers
    \/ handleCancelEdit \/ handleCloseConversationDetail

SpecEdit == InitEdit /\ [][NextEdit]_vars

\* a journal of one day with one entry
RefreshJournals ==
    { JournalOf(<<Day1>>,
                << <<StoredEntry(Str(Stamp1), <<"Tower">>, <<"Climbed it">>)>> >>) }

InitRefresh == MountedOver(RefreshJournals)

\* overlapping loads: the screen regains focus and the user pulls to refresh
\* while an entry is opened, edited and saved
NextRefresh ==
    \/ DebugUserAnswers \/ LocationsAnswers \/ EntriesAnswers \/ DailyEntriesAnswers
    \/ onFocus \/ onRefresh
    \/ handleConversationPress
    \/ handleEditPress \/ onChangeText \/ handleSaveEdit \/ PatchAnswers

SpecRefresh == InitRefresh /\ [][NextRefresh]_vars

(***************************************************************************)
(* HomeScreen.tsx: the chat and the text-to-speech player.  A call of an   *)
(* async function is a record in chatCalls or plays; one step takes it     *)
(* from the answer of the operation it awaits to the next await.           *)
(***************************************************************************)

\* what the user has typed into the chat input
ChatInputs == { <<" ">>, <<"hi">>, <<" ", "hi", " ">> }

KStatus == <<"status">>
KMessage == <<"message">>
KTtsAudioData == <<"tts_audio_data">>
KAudioData == <<"audio_data">>

Success == Str(<<"success">>)
Failure == Str(<<"error">>)

\* the three texts of 503, 512 and 523
TextEncountered == Str(<<"Sorry, I encountered an error.">>)
TextCannotConnect == Str(<<"Sorry, I cannot connect to the server right now.">>)
TextWentWrong == Str(<<"Sorry, something went wrong. Please try again.">>)

\* an answer of the backend with its HTTP status
HttpResponse(status, data) == [t |-> "response", status |-> status, data |-> data]

\* what POST /api/chat/ may answer; axios rejects on a network failure and
\* on a status outside 2xx
ChatReplies ==
    { Rejected,
      HttpResponse(200, Obj(<<Prop(KStatus, Success), Prop(KResponse, Str(<<"Hello">>)),
                              Prop(KTtsAudioData, Str(<<"QUJD">>))>>)),
      HttpResponse(200, Obj(<<Prop(KStatus, Success), Prop(KResponse, Str(<<"Hello">>))>>)),
      HttpResponse(200, Obj(<<Prop(KStatus, Failure),
                              Prop(KMessage, Str(<<"Quota exceeded">>))>>)),
      HttpResponse(200, Obj(<<Prop(KStatus, Failure)>>)),
      HttpResponse(204, Undefined),
      HttpResponse(200, Undefined) }

\* what POST /api/voice/speak may answer
SpeakReplies ==
    { Rejected,
      HttpResponse(200, Obj(<<Prop(KStatus, Success), Prop(KAudioData, Str(<<"QUJD">>))>>)),
      HttpResponse(200, Obj(<<Prop(KStatus, Failure)>>)) }

\* reading a property of undefined or null throws
ReadThrows(result) == result.t \in {"undefined", "null"}

\* the reply took the branch of 467-498
Succeeded(resp) ==
    /\ resp.t = "response"
    /\ resp.status = 200
    /\ ~ReadThrows(resp.data)
    /\ Get(resp.data, KStatus) = Success

\* the text of the message handleSubmitMessage appends when the request has
\* settled (465-526)
ReplyText(resp) ==
    IF resp.t = "rejected" THEN TextWentWrong
    ELSE IF resp.status # 200 THEN TextCannotConnect
    ELSE IF ReadThrows(resp.data) THEN TextWentWrong
    ELSE IF Get(resp.data, KStatus) = Success THEN Get(resp.data, KResponse)
    ELSE Or(Get(resp.data, KMessage), TextEncountered)

Message(isUser, text) == [isUser |-> isUser, text |-> text]

UserMessages == SelectSeq(messages, LAMBDA m : m.isUser)

\* a sequence without its i-th element
Remove(s, i) == [j \in 1..Len(s) - 1 |-> IF j < i THEN s[j] ELSE s[j + 1]]

\* a call of playBase64Audio, of handleTtsForMessage or of the stop button;
\* its sound and its temp file are named after it
Play(call, by, pc) == [call |-> call, by |-> by, pc |-> pc, target |-> Null]

PlayDone(p) == [p EXCEPT !.pc = "done", !.target = Null]

FileUri(p) == [call |-> p.call, by |-> p.by]

\* playBase64Audio after stopCurrentTts has returned: the temp file is named
\* and written (316-322); the stop button is done here
FromWrite(p, ref, fileRef) ==
    IF p.by = "button"
    THEN [ref |-> ref, fileRef |-> fileRef, proc |-> PlayDone(p)]
    ELSE [ref |-> ref, fileRef |-> FileUri(p),
          proc |-> [p EXCEPT !.pc = "write", !.target = Null]]

\* stopCurrentTts from its second if (287-290)
FromFileCheck(p, ref, fileRef) ==
    IF fileRef # Null
    THEN [ref |-> ref, fileRef |-> fileRef,
          proc |-> [p EXCEPT !.pc = "deleteAsync", !.target = fileRef]]
    ELSE FromWrite(p, ref, fileRef)

\* stopCurrentTts from its start (280-283)
stopCurrentTts(p, ref, fileRef) ==
    IF ref # Null
    THEN [ref |-> ref, fileRef |-> fileRef,
          proc |-> [p EXCEPT !.pc = "stopAsync", !.target = ref]]
    ELSE FromFileCheck(p, ref, fileRef)

\* the variables of the home screen that no step of the player writes
outsidePlayer == <<messages, inputText, ttsEnabled>>

outsideHome ==
    <<baseURL, urlVars, netVars, journalVars, pinVars, editVars, micVars, authVars>>

PlayGoesWithoutFinally(i, out) ==
    /\ currentSoundRef' = out.ref
    /\ currentSoundFileUriRef' = out.fileRef
    /\ IF out.proc.pc = "done"
       THEN /\ plays' = Remove(plays, i)
            /\ chatCalls' = SelectSeq(chatCalls, LAMBDA c : c.id # plays[i].call)
            /\ UNCHANGED isLoading
       ELSE /\ plays' = [plays EXCEPT ![i] = out.proc]
            /\ UNCHANGED <<isLoading, chatCalls>>

\* the call plays[i] goes on as out says; a playBase64Audio that
\* handleSubmitMessage awaits lets it reach its finally when it returns
\* (490, 527-529)
PlayGoes(i, out) ==
    /\ currentSoundRef' = out.ref
    /\ currentSoundFileUriRef' = out.fileRef
    /\ IF out.proc.pc = "done"
       THEN /\ plays' = Remove(plays, i)
            /\ IF plays[i].by = "chat"
               THEN /\ isLoading' = FALSE
                    /\ chatCalls' = SelectSeq(chatCalls, LAMBDA c : c.id # plays[i].call)
               ELSE UNCHANGED <<isLoading, chatCalls>>
       ELSE /\ plays' = [plays EXCEPT ![i] = out.proc]
            /\ UNCHANGED <<isLoading, chatCalls>>

\* the TTS toggle (809)
setTtsEnabled ==
    /\ ttsEnabled' = ~ttsEnabled
    /\ UNCHANGED <<messages, inputText, isLoading, chatCalls, plays, currentSoundRef,
                   currentSoundFileUriRef, sounds, files, outsideHome>>

\* handleSubmitMessage up to its await (439-464); blank input does nothing
handleSubmitMessage ==
    IF Trim(inputText) = <<>>
    THEN UNCHANGED vars
    ELSE /\ messages' = Append(messages, Message(TRUE, Str(Trim(inputText))))
         /\ inputText' = <<>>
         /\ isLoading' = TRUE
         /\ chatCalls' = Append(chatCalls, [id |-> Len(UserMessages) + 1,
                                            pc |-> "post", tts |-> ttsEnabled])
         /\ UNCHANGED <<ttsEnabled, plays, currentSoundRef, currentSoundFileUriRef,
                        sounds, files, outsideHome>>

\* POST /api/chat/ has settled: the one message is appended, and on success
\* with TTS enabled handleTtsForMessage is called without await and
\* playBase64Audio with await (465-529)
ChatAnswers ==
    \E i \in 1..Len(chatCalls) : \E resp \in ChatReplies :
        LET c == chatCalls[i]
            spoken == Succeeded(resp) /\ c.tts
            speaks == spoken /\ Truthy(Get(resp.data, KResponse))
            inline == spoken /\ Truthy(Get(resp.data, KTtsAudioData))
            out == stopCurrentTts(Play(c.id, "chat", "begin"),
                                  currentSoundRef, currentSoundFileUriRef)
        IN  /\ c.pc = "post"
            /\ messages' = Append(messages, Message(FALSE, ReplyText(resp)))
            /\ plays' = plays
                        \o (IF speaks THEN <<Play(c.id, "speak", "speak")>> ELSE <<>>)
                        \o (IF inline THEN <<out.proc>> ELSE <<>>)
            /\ Len(plays') <= MaxPlays
            /\ IF inline
               THEN /\ currentSoundRef' = out.ref
                    /\ currentSoundFileUriRef' = out.fileRef
                    /\ chatCalls' = [chatCalls EXCEPT ![i].pc = "audio"]
                    /\ UNCHANGED isLoading
               ELSE /\ chatCalls' = Remove(chatCalls, i)
                    /\ isLoading' = FALSE
                    /\ UNCHANGED <<currentSoundRef, currentSoundFileUriRef>>
            /\ UNCHANGED <<inputText, ttsEnabled, sounds, files, outsideHome>>

\* POST /api/voice/speak has settled (742-758)
SpeakAnswers ==
    \E i \in 1..Len(plays) : \E resp \in SpeakReplies :
        /\ plays[i].pc = "speak"
        /\ PlayGoes(i, IF Succeeded(resp) /\ Truthy(Get(resp.data, KAudioData))
                       THEN stopCurrentTts(plays[i], currentSoundRef, currentSoundFileUriRef)
                       ELSE [ref |-> currentSoundRef, fileRef |-> currentSoundFileUriRef,
                             proc |-> PlayDone(plays[i])])
        /\ UNCHANGED <<sounds, files, outsidePlayer, outsideHome>>

\* the stop button (870)
StopPressed ==
    LET p == Play(0, "button", "begin")
        out == stopCurrentTts(p, currentSoundRef, currentSoundFileUriRef)
    IN  /\ Len(plays) < MaxPlays
        /\ out.proc.pc # "done"
        /\ plays' = Append(plays, out.proc)
        /\ currentSoundRef' = out.ref
        /\ currentSoundFileUriRef' = out.fileRef
        /\ UNCHANGED <<isLoading, chatCalls, sounds, files, outsidePlayer, outsideHome>>

\* stopAsync has settled; the ref is read again for unloadAsync, and a null
\* there throws into the empty catch (282-284)
StopAsyncSettles ==
    \E i \in 1..Len(plays) :
        /\ plays[i].pc = "stopAsync"
        /\ sounds' = { IF s.id = plays[i].target THEN [s EXCEPT !.playing = FALSE] ELSE s :
                         s \in sounds }
        /\ PlayGoes(i, IF currentSoundRef # Null
                       THEN [ref |-> currentSoundRef, fileRef |-> currentSoundFileUriRef,
                             proc |-> [plays[i] EXCEPT !.pc = "unloadAsync",
                                                       !.target = currentSoundRef]]
                       ELSE FromFileCheck(plays[i], Null, currentSoundFileUriRef))
        /\ UNCHANGED <<files, outsidePlayer, outsideHome>>

\* unloadAsync has settled (283-284)
UnloadAsyncSettles ==
    \E i \in 1..Len(plays) :
        /\ plays[i].pc = "unloadAsync"
        /\ sounds' = { s \in sounds : s.id # plays[i].target }
        /\ PlayGoes(i, FromFileCheck(plays[i], Null, currentSoundFileUriRef))
        /\ UNCHANGED <<files, outsidePlayer, outsideHome>>

\* deleteAsync has settled (287-289)
DeleteAsyncSettles ==
    \E i \in 1..Len(plays) :
        /\ plays[i].pc = "deleteAsync"
        /\ files' = files \ {plays[i].target}
        /\ PlayGoes(i, FromWrite(plays[i], currentSoundRef, Null))
        /\ UNCHANGED <<sounds, outsidePlayer, outsideHome>>

\* writeAsStringAsync has settled (320-322); a failure ends in the catch of 334
WriteSettles ==
    \E i \in 1..Len(plays) : \E written \in BOOLEAN :
        /\ plays[i].pc = "write"
        /\ files' = IF written THEN files \cup {FileUri(plays[i])} ELSE files
        /\ PlayGoes(i, [ref |-> currentSoundRef, fileRef |-> currentSoundFileUriRef,
                        proc |-> IF written THEN [plays[i] EXCEPT !.pc = "createAsync"]
                                 ELSE PlayDone(plays[i])])
        /\ UNCHANGED <<sounds, outsidePlayer, outsideHome>>

\* createAsync has settled (324-333): the sound plays and is kept in the ref;
\* without its file it fails into the catch of 334
CreateSettles ==
    \E i \in 1..Len(plays) :
        LET loaded == FileUri(plays[i]) \in files IN
        /\ plays[i].pc = "createAsync"
        /\ sounds' = IF loaded
                     THEN sounds \cup {[id |-> FileUri(plays[i]), playing |-> TRUE]}
                     ELSE sounds
        /\ PlayGoes(i, [ref |-> IF loaded THEN FileUri(plays[i]) ELSE currentSoundRef,
                        fileRef |-> currentSoundFileUriRef,
                        proc |-> PlayDone(plays[i])])
        /\ UNCHANGED <<files, outsidePlayer, outsideHome>>

\* a sound has played to its end: the callback of 326-333
SoundFinishes ==
    \E s \in sounds :
        /\ s.playing
        /\ sounds' = sounds \ {s}
        /\ files' = files \ {s.id}
        /\ currentSoundRef' = Null
        /\ currentSoundFileUriRef' = Null
        /\ UNCHANGED <<isLoading, chatCalls, plays, outsidePlayer, outsideHome>>

\* the home screen after it was mounted (17-20), with a text typed into the
\* chat input (897)
InitHome ==
    /\ messages = <<>>
    /\ inputText \in ChatInputs
    /\ isLoading = FALSE
    /\ ttsEnabled = FALSE
    /\ chatCalls = <<>>
    /\ plays = <<>>
    /\ currentSoundRef = Null
    /\ currentSoundFileUriRef = Null
    /\ sounds = {}
    /\ files = {}
    /\ baseURL = Str(DefaultBase)
    /\ NoRequests
    /\ NoJournal
    /\ NoPins
    /\ NoEdit
    /\ NoMic
    /\ NoAuth

NextHome ==
    \/ setTtsEnabled \/ handleSubmitMessage \/ ChatAnswers
    \/ SpeakAnswers \/ StopPressed
    \/ StopAsyncSettles \/ UnloadAsyncSettles \/ DeleteAsyncSettles
    \/ WriteSettles \/ CreateSettles \/ SoundFinishes

SpecHome == InitHome /\ [][NextHome]_vars

(***************************************************************************)
(* MicButton.tsx: the microphone button.  A call of startRecording or of   *)
(* stopRecording is a record in micCalls; one step takes it from the       *)
(* answer of the operation it awaits to the next await.                    *)
(***************************************************************************)

\* the variables of the button that only the calls write
outsideMic ==
    <<baseURL, urlVars, netVars, journalVars, pinVars, editVars, homeVars, authVars>>

\* the Audio.Recording object the n-th call of startRecording creates
Recording(n) == [recording |-> n]

MicCall(kind, pc, target) == [kind |-> kind, pc |-> pc, target |-> target]

\* a call may start while fewer than MaxMicCalls are under way
CanCall == Len(micCalls) < MaxMicCalls

\* startRecording up to its first await (72-75)
StartBegins ==
    /\ CanCall
    /\ micStarts < MaxRecordings
    /\ micStarts' = micStarts + 1
    /\ micCalls' = Append(micCalls, MicCall("start", "requestPermissionsAsync", Recording(micStarts + 1)))
    /\ UNCHANGED <<isRecording, recording, isProcessing, prepared, transcripts>>

\* stopRecording up to its first await (99-106)
StopBegins ==
    IF recording = Null
    THEN UNCHANGED micVars
    ELSE /\ CanCall
         /\ isRecording' = FALSE
         /\ isProcessing' = TRUE
         /\ micCalls' = Append(micCalls, MicCall("stop", "stopAndUnloadAsync", recording))
         /\ UNCHANGED <<recording, prepared, transcripts, micStarts>>

\* the button, which is disabled while isProcessing (138-146, 157)
handleMicPress ==
    /\ ~isProcessing
    /\ IF isRecording THEN StopBegins ELSE StartBegins
    /\ UNCHANGED outsideMic

\* startRecording called through the ref (24-28), as the wake word handler
\* does
startRecording ==
    /\ StartBegins
    /\ UNCHANGED outsideMic

\* stopRecording called through the ref (24-28)
stopRecording ==
    /\ StopBegins
    /\ UNCHANGED outsideMic

\* requestPermissionsAsync has settled (75-79); a rejection ends in the catch
\* of 94
PermissionsSettle ==
    \E i \in 1..Len(micCalls) : \E granted \in BOOLEAN :
        /\ micCalls[i].pc = "requestPermissionsAsync"
        /\ micCalls' = IF granted
                       THEN [micCalls EXCEPT ![i].pc = "setAudioModeAsync"]
                       ELSE Remove(micCalls, i)
        /\ UNCHANGED <<isRecording, recording, isProcessing, prepared, transcripts,
                       micStarts, outsideMic>>

\* what stopRecording does once the recording is stopped and the audio mode
\* is set back (111-132); getURI gives the URI or null
AfterGetURI(i, hasUri) ==
    /\ micCalls' = IF hasUri THEN [micCalls EXCEPT ![i].pc = "transcribeAudio"]
                   ELSE Remove(micCalls, i)
    /\ recording' = IF hasUri THEN recording ELSE Null
    /\ UNCHANGED isProcessing

\* setAudioModeAsync has settled, in startRecording (82-85) or in
\* stopRecording (107-132); a rejection ends in the catch of 94 or of 133
AudioModeSettles ==
    \E i \in 1..Len(micCalls) : \E fulfilled \in BOOLEAN :
        /\ micCalls[i].pc = "setAudioModeAsync"
        /\ IF micCalls[i].kind = "start"
           THEN /\ micCalls' = IF fulfilled
                               THEN [micCalls EXCEPT ![i].pc = "createAsync"]
                               ELSE Remove(micCalls, i)
                /\ UNCHANGED <<recording, isProcessing>>
           ELSE IF fulfilled
                THEN \E hasUri \in BOOLEAN : AfterGetURI(i, hasUri)
                ELSE /\ micCalls' = Remove(micCalls, i)
                     /\ isProcessing' = FALSE
                     /\ UNCHANGED recording
        /\ UNCHANGED <<isRecording, prepared, transcripts, micStarts, outsideMic>>

\* Audio.Recording.createAsync has settled (88-93); the recorder prepares one
\* recording at a time
RecordingCreateSettles ==
    \E i \in 1..Len(micCalls) : \E fulfilled \in { ok \in BOOLEAN : ok => prepared = Null } :
        /\ micCalls[i].pc = "createAsync"
        /\ micCalls' = Remove(micCalls, i)
        /\ IF fulfilled
           THEN /\ prepared' = micCalls[i].target
                /\ recording' = micCalls[i].target
                /\ isRecording' = TRUE
           ELSE UNCHANGED <<prepared, recording, isRecording>>
        /\ UNCHANGED <<isProcessing, transcripts, micStarts, outsideMic>>

\* stopAndUnloadAsync has settled (105); a rejection ends in the catch of 133
StopAndUnloadSettles ==
    \E i \in 1..Len(micCalls) : \E fulfilled \in BOOLEAN :
        /\ micCalls[i].pc = "stopAndUnloadAsync"
        /\ IF fulfilled
           THEN /\ prepared' = IF prepared = micCalls[i].target THEN Null ELSE prepared
                /\ micCalls' = [micCalls EXCEPT ![i].pc = "setAudioModeAsync"]
                /\ UNCHANGED isProcessing
           ELSE /\ micCalls' = Remove(micCalls, i)
                /\ isProcessing' = FALSE
                /\ UNCHANGED prepared
        /\ UNCHANGED <<isRecording, recording, transcripts, micStarts, outsideMic>>

\* transcribeAudio has settled (117-127): onTranscriptionComplete gets the
\* text or the fallback text, then finally and setRecording(null) (130)
TranscribeSettles ==
    \E i \in 1..Len(micCalls) : \E fulfilled \in BOOLEAN :
        /\ micCalls[i].pc = "transcribeAudio"
        /\ transcripts' = Append(transcripts, [recording |-> micCalls[i].target,
                                               transcribed |-> fulfilled])
        /\ isProcessing' = FALSE
        /\ recording' = Null
        /\ micCalls' = Remove(micCalls, i)
        /\ UNCHANGED <<isRecording, prepared, micStarts, outsideMic>>

\* the button after it was mounted (20-22)
InitMic ==
    /\ NoMic
    /\ baseURL = Str(DefaultBase)
    /\ NoRequests
    /\ NoJournal
    /\ NoPins
    /\ NoEdit
    /\ NoHome
    /\ NoAuth

\* the steps that answer an await
MicSettles ==
    \/ PermissionsSettle \/ AudioModeSettles \/ RecordingCreateSettles
    \/ StopAndUnloadSettles \/ TranscribeSettles

NextMic == handleMicPress \/ startRecording \/ stopRecording \/ MicSettles

SpecMic == InitMic /\ [][NextMic]_vars

\* every operation that is awaited settles; nobody is obliged to press the
\* button or to call the ref
SpecMicLive == SpecMic /\ WF_vars(MicSettles)

(***************************************************************************)
(* apiClient.ts: the request interceptor while no user is signed in.  A    *)
(* run of the interceptor is a record in authCalls, which also keeps the   *)
(* requests that were sent with the header they carry.                     *)
(***************************************************************************)

\* what Math.random().toString(36).substring(2, 15) may give
RandomIds == { <<"k3j9x">>, <<"q7w2m">> }

\* `Bearer demo_device_${demoUserId}` (112, 123, 127)
DemoHeader(id) == Str(<<"Bearer demo_device_">> \o id)

outsideAuth ==
    <<baseURL, urlVars, netVars, journalVars, pinVars, editVars, homeVars, micVars>>

\* a request is made: the interceptor reads auth.currentUser and, without a
\* user, the item 'demo_user_id' (98-106)
Request ==
    /\ currentUser = Null
    /\ Len(authCalls) < MaxRequests
    /\ authCalls' = Append(authCalls, [pc |-> "getItem", caught |-> FALSE,
                                       demoUserId |-> Null, header |-> Undefined])
    /\ UNCHANGED <<currentUser, demoUserId, outsideAuth>>

\* the request leaves with its header
Sent(call, header) == [call EXCEPT !.pc = "sent", !.header = header]

\* an AsyncStorage call has thrown: in the try block the catch of 113 reads
\* the item again (118); in the catch block the final fallback takes an id
\* that is not stored (124-128)
StorageThrew(call) ==
    IF call.caught
    THEN { Sent(call, DemoHeader(id)) : id \in RandomIds }
    ELSE { [call EXCEPT !.pc = "getItem", !.caught = TRUE, !.demoUserId = Null] }

\* getItem has settled (106-112, 118-123)
GetItemSettles ==
    \E i \in 1..Len(authCalls) : \E fulfilled \in BOOLEAN :
        /\ authCalls[i].pc = "getItem"
        /\ \E next \in IF ~fulfilled THEN StorageThrew(authCalls[i])
                       ELSE IF demoUserId # Null
                       THEN { Sent(authCalls[i], DemoHeader(demoUserId.v)) }
                       ELSE { [authCalls[i] EXCEPT !.pc = "setItem", !.demoUserId = Str(id)] :
                                id \in RandomIds } :
              authCalls' = [authCalls EXCEPT ![i] = next]
        /\ UNCHANGED <<currentUser, demoUserId, outsideAuth>>

\* setItem has settled (109-112, 121-123)
SetItemSettles ==
    \E i \in 1..Len(authCalls) : \E fulfilled \in BOOLEAN :
        /\ authCalls[i].pc = "setItem"
        /\ demoUserId' = IF fulfilled THEN authCalls[i].demoUserId ELSE demoUserId
        /\ \E next \in IF fulfilled
                       THEN { Sent(authCalls[i], DemoHeader(authCalls[i].demoUserId.v)) }
                       ELSE StorageThrew(authCalls[i]) :
              authCalls' = [authCalls EXCEPT ![i] = next]
        /\ UNCHANGED <<currentUser, outsideAuth>>

\* the client before its first request, with no user signed in and no item
\* 'demo_user_id' in storage
InitAuth ==
    /\ NoAuth
    /\ baseURL = Str(DefaultBase)
    /\ NoRequests
    /\ NoJournal
    /\ NoPins
    /\ NoEdit
    /\ NoHome
    /\ NoMic

NextAuth == Request \/ GetItemSettles \/ SetItemSettles

SpecAuth == InitAuth /\ [][NextAuth]_vars


(***************************************************************************)
(* Properties of the aggregation.                                          *)
(***************************************************************************)
\* the journal_entries mapping the transform has consumed
JournalData == DataField(respEntries, KJournalEntries)

\* loadConversationData has run the transform and stored its result
Transformed ==
    /\ loadOutcome = "done"
    /\ respEntries # Rejected
    /\ Truthy(JournalData)

\* every value of the mapping is a list of entry records
ListsOfRecords ==
    \A i \in 1..Len(JournalData.v) :
        /\ JournalData.v[i].v.t = "array"
        /\ \A j \in 1..Len(JournalData.v[i].v.v) :
               JournalData.v[i].v.v[j].t = "object"

\* what identifies an entry in the list view: its time stamp and its title
EntryMark(entry) ==
    << IF HasKey(entry, KTimestamp) /\ Get(entry, KTimestamp).v # <<>>
       THEN Get(entry, KTimestamp).v ELSE <<>>,
       IF HasKey(entry, KSummary) /\ Get(entry, KSummary).v # <<>>
       THEN Get(entry, KSummary).v ELSE <<"Journal Entry">> >>

ConversationMark(c) == << c.timestamp.v, c.message.v >>

\* positions of the input entries and of the produced conversations
EntrySlots ==
    UNION { { <<i, j>> : j \in 1..Len(JournalData.v[i].v.v) } :
            i \in 1..Len(JournalData.v) }

ConversationSlots ==
    UNION { { <<b, j>> : j \in 1..Len(dailyConversations[b].conversations) } :
            b \in 1..Len(dailyConversations) }

\* C1: for a mapping date -> list of entry records, the conversations of
\* the produced bundles are the input entries, each exactly once: as many
\* conversations as entries, and under every date as many conversations
\* with a given mark as the date has entries with that mark.
C1_Partition ==
    (Transformed /\ ListsOfRecords) =>
        /\ Cardinality(ConversationSlots) = Cardinality(EntrySlots)
        /\ \A e \in EntrySlots :
               LET key  == JournalData.v[e[1]].k
                   mark == EntryMark(JournalData.v[e[1]].v.v[e[2]])
               IN  Cardinality({ c \in ConversationSlots :
                       /\ dailyConversations[c[1]].date = Str(key)
                       /\ ConversationMark(dailyConversations[c[1]].conversations[c[2]])
                              = mark })
                   = Cardinality({ f \in EntrySlots :
                       /\ JournalData.v[f[1]].k = key
                       /\ EntryMark(JournalData.v[f[1]].v.v[f[2]]) = mark })

\* two days with two entries each have been turned into bundles
C1_Witness ==
    /\ Transformed /\ ListsOfRecords
    /\ Len(dailyConversations) >= 2
    /\ \A b \in 1..Len(dailyConversations) :
           Len(dailyConversations[b].conversations) = 2

\* C2: no two bundles have the same date, every bundle's date is a date key
\* of the mapping, and the bundle holds the entries of that key and no other.
C2_OneBundlePerDate ==
    (Transformed /\ ListsOfRecords) =>
        /\ \A a, b \in 1..Len(dailyConversations) :
               dailyConversations[a].date = dailyConversations[b].date => a = b
        /\ \A b \in 1..Len(dailyConversations) :
               \E i \in 1..Len(JournalData.v) :
                   /\ dailyConversations[b].date = Str(JournalData.v[i].k)
                   /\ Len(dailyConversations[b].conversations)
                          = Len(JournalData.v[i].v.v)
                   /\ \A j \in 1..Len(JournalData.v[i].v.v) :
                          \E c \in 1..Len(dailyConversations[b].conversations) :
                              ConversationMark(dailyConversations[b].conversations[c])
                                  = EntryMark(JournalData.v[i].v.v[j])
        /\ \A i \in 1..Len(JournalData.v) :
               \E b \in 1..Len(dailyConversations) :
                   dailyConversations[b].date = Str(JournalData.v[i].k)

\* three days, one of them with two entries, each in a bundle of its own
C2_Witness ==
    /\ Transformed /\ ListsOfRecords
    /\ Len(dailyConversations) = 3
    /\ \E b \in 1..3 : Len(dailyConversations[b].conversations) = 2
    /\ \A a, b \in 1..3 :
           a # b => dailyConversations[a].date # dailyConversations[b].date

\* the entry list from which bundle b was built
SourceEntries(b) ==
    LET i == CHOOSE i \in 1..Len(JournalData.v) :
                 Str(JournalData.v[i].k) = dailyConversations[b].date
    IN  IF JournalData.v[i].v.t = "array" THEN JournalData.v[i].v.v ELSE <<>>

\* a string with a character that is not white space
NonBlank(x) ==
    x.t = "string" /\ \E k \in 1..Len(x.v) : ~IsWhiteSpace(x.v[k])

\* C3 (as claimed): the bundles are listed in descending order of date; no
\* bundle with a date stands before a bundle with a later date.
C3_SortedDescending ==
    Transformed =>
        \A a, b \in 1..Len(dailyConversations) :
            (/\ a < b
             /\ IsIsoDate(dailyConversations[a].date.v)
             /\ IsIsoDate(dailyConversations[b].date.v))
                => DateGetTime(dailyConversations[a].date.v).v
                       >= DateGetTime(dailyConversations[b].date.v).v

\* C4: when an entry of the bundle has a diary that is not blank, the
\* bundle's diarySummary is the diary of the first such entry, as it stands.
C4_ExplicitDiaryWins ==
    (Transformed /\ ListsOfRecords) =>
        \A b \in 1..Len(dailyConversations) :
            LET es      == SourceEntries(b)
                diaries == { j \in 1..Len(es) :
                               HasKey(es[j], KDiary) /\ NonBlank(Get(es[j], KDiary)) }
            IN  diaries # {} =>
                    dailyConversations[b].diarySummary
                        = Get(es[CHOOSE j \in diaries : \A k \in diaries : j <= k], KDiary)

\* a summary, a blank diary, then two diaries: the first diary that is not
\* blank is shown
C4_Witness ==
    /\ Transformed
    /\ \E b \in 1..Len(dailyConversations) :
           /\ Len(SourceEntries(b)) = 2
           /\ Get(SourceEntries(b)[1], KSummary) = Str(<<"Saw the tower">>)
           /\ Get(SourceEntries(b)[1], KDiary) = Str(<<" ">>)
           /\ Get(SourceEntries(b)[2], KDiary) = Str(<<"A">>)
           /\ dailyConversations[b].diarySummary = Str(<<"A">>)

\* the text of an entry in the fallback: its summary, else its response
FallbackPiece(e) ==
    IF HasKey(e, KSummary) /\ Get(e, KSummary).v # <<>> THEN Get(e, KSummary).v
    ELSE IF HasKey(e, KResponse) /\ Get(e, KResponse).v # <<>> THEN Get(e, KResponse).v
    ELSE <<>>

RECURSIVE FallbackText(_)
FallbackText(es) ==
    IF es = <<>> THEN <<>>
    ELSE LET piece == FallbackPiece(Head(es))
             rest  == FallbackText(Tail(es))
         IN  IF piece = <<>> THEN rest
             ELSE IF rest = <<>> THEN piece
             ELSE piece \o <<"\n", "\n">> \o rest

\* C5: when no entry of the bundle has a diary field, diarySummary is the
\* pieces of the entries (summary, else response) that are not empty, in
\* entry order, with a blank line between two pieces.
C5_FallbackConcatenation ==
    (Transformed /\ ListsOfRecords) =>
        \A b \in 1..Len(dailyConversations) :
            (\A j \in 1..Len(SourceEntries(b)) : ~HasKey(SourceEntries(b)[j], KDiary))
                => dailyConversations[b].diarySummary
                       = Str(FallbackText(SourceEntries(b)))

\* summary "Saw the tower" then response "It was great"
C5_Witness ==
    /\ Transformed
    /\ \E b \in 1..Len(dailyConversations) :
           /\ SourceEntries(b)
                  = << Obj(<<Prop(KSummary, Str(<<"Saw the tower">>))>>),
                       Obj(<<Prop(KResponse, Str(<<"It was great">>))>>) >>
           /\ dailyConversations[b].diarySummary
                  = Str(<<"Saw the tower", "\n", "\n", "It was great">>)

\* C6: diarySummary is always a string; it is the empty string when no
\* diary, summary or response text survives; and for an empty summary the
\* list view and the day view show their placeholder text.
C6_SummaryNeverMissing ==
    /\ \A b \in 1..Len(dailyConversations) :
           /\ dailyConversations[b].diarySummary.t = "string"
           /\ (\A j \in 1..Len(SourceEntries(b)) :
                   LET e == SourceEntries(b)[j]
                   IN  /\ e.t = "object"
                       /\ ~NonBlank(Get(e, KDiary))
                       /\ FallbackPiece(e) = <<>>)
                  => dailyConversations[b].diarySummary = Str(<<>>)
    /\ Len(listView) = Len(dailyConversations)
    /\ \A b \in 1..Len(listView) :
           /\ listView[b].t = "string" /\ listView[b].v # <<>>
           /\ dailyConversations[b].diarySummary = Str(<<>>)
                  => listView[b] = Str(<<"No summary yet for this day">>)
    /\ dayView # NoDayView =>
           /\ dayView.summaryText.t = "string" /\ dayView.summaryText.v # <<>>
           /\ (~Truthy(dayView.params)
               \/ Get(dayView.params, KDiarySummary) \in {Undefined, Null, Str(<<>>)})
                  => dayView.summaryText = Str(<<"No summary available for this day.">>)

\* a day with an entry but without any text, shown in both views
C6_Witness ==
    /\ Transformed
    /\ \E b \in 1..Len(dailyConversations) :
           /\ Len(dailyConversations[b].conversations) > 0
           /\ dailyConversations[b].diarySummary = Str(<<>>)
           /\ listView[b] = Str(<<"No summary yet for this day">>)
    /\ Truthy(dayView.params)
    /\ Get(dayView.params, KDiarySummary) = Str(<<>>)
    /\ dayView.summaryText = Str(<<"No summary available for this day.">>)

(***************************************************************************)
(* Properties of normalizeUrl and of the photos of a bundle.               *)
(***************************************************************************)
IsAbsolute(s) == StartsWith(s, HttpPrefix) \/ StartsWith(s, HttpsPrefix)

HasToken(s) == Includes(ToLowerCase(s), PlaceholderToken)

EndsWith(s, suffix) ==
    /\ Len(suffix) <= Len(s)
    /\ SubSeq(s, Len(s) - Len(suffix) + 1, Len(s)) = suffix

\* normalizing the result of a normalization gives the same result
Idempotent == (urlPc = "twice" /\ urlOut # Null) => urlOut2 = urlOut

\* C7 (as claimed): every absolute http:// or https:// URL passes through
\* normalizeUrl unchanged, and normalizeUrl is idempotent.
C7_AbsoluteUnchanged ==
    /\ (urlPc # "start" /\ urlArg.t = "string" /\ IsAbsolute(urlArg.v))
           => urlOut = urlArg
    /\ Idempotent

\* C7 (amended): an absolute http:// or https:// URL that has no white space
\* at its end and does not contain the placeholder token, in any letter
\* case, passes through normalizeUrl unchanged; and normalizeUrl is idempotent.
C7_AbsoluteUnchangedAmended ==
    /\ (/\ urlPc # "start"
        /\ urlArg.t = "string"
        /\ IsAbsolute(urlArg.v)
        /\ TrimEnd(urlArg.v) = urlArg.v
        /\ ~HasToken(urlArg.v))
           => urlOut = urlArg
    /\ Idempotent

\* an absolute URL normalized twice
C7_Witness ==
    /\ urlPc = "twice"
    /\ urlArg = Str(HttpPrefix \o <<"x.jpg">>)
    /\ urlOut = urlArg
    /\ urlOut2 = urlArg

\* the join the claim describes: a slash is put between the base and the
\* path only if the base does not end with one and the path does not start
\* with one
JoinWithOneSlash(base, path) ==
    IF EndsWith(base, <<"/">>) \/ StartsWith(path, <<"/">>)
    THEN base \o path
    ELSE base \o <<"/">> \o path

\* C8 (as claimed): a relative path is resolved against the configured base
\* URL, with a slash inserted only if neither the end of the base nor the
\* start of the path has one.
C8_RelativeResolved ==
    (/\ urlPc # "start"
     /\ Truthy(baseURL)
     /\ urlArg.t = "string"
     /\ Trim(urlArg.v) = urlArg.v
     /\ urlArg.v # <<>>
     /\ ~HasToken(urlArg.v)
     /\ ~IsAbsolute(urlArg.v))
        => urlOut = Str(JoinWithOneSlash(baseURL.v, urlArg.v))

\* the photo field a conversation shows
PhotoField(e) ==
    IF HasKey(e, KPhotoUrl) /\ Truthy(Get(e, KPhotoUrl)) THEN Get(e, KPhotoUrl)
    ELSE IF HasKey(e, KPhoto_url) /\ Truthy(Get(e, KPhoto_url)) THEN Get(e, KPhoto_url)
    ELSE IF HasKey(e, KPhoto) THEN Get(e, KPhoto)
    ELSE Undefined

\* every image of a bundle is a string that is not blank and is free of the
\* placeholder token
ImagesArePhotos ==
    \A b \in 1..Len(dailyConversations) :
        \A k \in 1..Len(dailyConversations[b].images) :
            LET image == dailyConversations[b].images[k]
            IN  NonBlank(image) /\ ~HasToken(image.v)

\* C9 (as claimed): a photo value that is missing, empty or the placeholder
\* sentinel gives no photo_url and no image; a value that is not equal to
\* the sentinel is not dropped on account of the sentinel.
C9_SentinelFiltered ==
    (Transformed /\ ListsOfRecords) =>
        /\ ImagesArePhotos
        /\ \A b \in 1..Len(dailyConversations) :
               \A j \in 1..Len(SourceEntries(b)) :
                   LET value == PhotoField(SourceEntries(b)[j])
                       shown == dailyConversations[b].conversations[j].photo_url
                   IN  /\ (~Truthy(value) \/ value.v = PlaceholderToken)
                              => shown = Undefined
                       /\ (NonBlank(value) /\ value.v # PlaceholderToken)
                              => shown # Undefined

\* C9 (amended): a photo value that is missing, blank or contains the
\* placeholder token in any letter case gives no photo_url and no image;
\* every other value gives a photo_url ending with the value, which is among
\* the images when the images are taken from the entries.
C9_TokenFiltered ==
    (Transformed /\ ListsOfRecords) =>
        /\ ImagesArePhotos
        /\ \A b \in 1..Len(dailyConversations) :
               \A j \in 1..Len(SourceEntries(b)) :
                   LET value == PhotoField(SourceEntries(b)[j])
                       shown == dailyConversations[b].conversations[j].photo_url
                       kept  == NonBlank(value) /\ ~HasToken(value.v)
                   IN  /\ ~kept => shown = Undefined
                       /\ kept =>
                              /\ shown.t = "string"
                              /\ EndsWith(shown.v, Trim(value.v))
                              /\ respDailyEntries = NoDailyEntries
                                     => \E k \in 1..Len(dailyConversations[b].images) :
                                            dailyConversations[b].images[k] = shown

\* one entry with the sentinel, one with a URL that carries the token in
\* capitals, both dropped: no image is left
C9_Witness ==
    /\ Transformed
    /\ \E b \in 1..Len(dailyConversations) :
           /\ SourceEntries(b)
                  = << Obj(<<Prop(KPhoto_url, Str(PlaceholderToken))>>),
                       Obj(<<Prop(KPhoto_url, Str(TokenPhoto))>>) >>
           /\ dailyConversations[b].conversations[1].photo_url = Undefined
           /\ dailyConversations[b].conversations[2].photo_url = Undefined
           /\ dailyConversations[b].images = <<>>

C11_ImagesDeduplicated ==
    Transformed =>
        \A b \in 1..Len(dailyConversations) :
            \A k1, k2 \in 1..Len(dailyConversations[b].images) :
                k1 # k2 => dailyConversations[b].images[k1]
                               # dailyConversations[b].images[k2]

\* the photo list that /journal/daily_entries holds for the date of bundle b
UpstreamImages(b) ==
    LET bundle == Get(DailyEntriesMap, dailyConversations[b].date.v)
    IN  IF bundle.t = "object" /\ Get(bundle, KImages).t = "array"
        THEN Get(bundle, KImages).v
        ELSE <<>>

\* an absolute URL that normalizeUrl leaves as it is
IsNormalized(x) ==
    /\ x.t = "string"
    /\ IsAbsolute(x.v)
    /\ TrimEnd(x.v) = x.v
    /\ ~HasToken(x.v)

\* C12 (as claimed): when /journal/daily_entries has a photo list that is not
\* empty for the date, the images of the bundle are that list as it stands.
C12_UpstreamVerbatim ==
    Transformed =>
        \A b \in 1..Len(dailyConversations) :
            UpstreamImages(b) # <<>>
                => dailyConversations[b].images = UpstreamImages(b)

\* C12 (amended): when /journal/daily_entries has a photo list for the date
\* of which at least one element normalizes to a photo, every image of the
\* bundle is the normalization of an element of that list and none is taken
\* from the entries; when all elements are normalized absolute URLs the
\* images are the list as it stands.
C12_UpstreamPrecedence ==
    Transformed =>
        \A b \in 1..Len(dailyConversations) :
            LET list == UpstreamImages(b)
                kept == { k \in 1..Len(list) : normalizeUrl(list[k]) # Null }
            IN  /\ kept # {} =>
                       /\ Len(dailyConversations[b].images) = Cardinality(kept)
                       /\ \A i \in 1..Len(dailyConversations[b].images) :
                              \E k \in kept :
                                  dailyConversations[b].images[i] = normalizeUrl(list[k])
                /\ (list # <<>> /\ \A k \in 1..Len(list) : IsNormalized(list[k]))
                       => dailyConversations[b].images = list

\* the upstream list is kept although an entry of the day has another photo
C12_Witness ==
    /\ Transformed
    /\ \E b \in 1..Len(dailyConversations) :
           /\ UpstreamImages(b) = <<Str(AbsolutePhoto), Str(AbsolutePhoto)>>
           /\ \E j \in 1..Len(SourceEntries(b)) :
                  Get(SourceEntries(b)[j], KPhoto_url) = Str(BarePhoto)
           /\ dailyConversations[b].images = UpstreamImages(b)

\* the positions of the photo fields of an entry that have a value
PhotoFields(e) ==
    { i \in 1..Len(e.v) : IsPhotoKey(e.v[i].k) /\ Truthy(e.v[i].v) }

\* the value of the first photo field of an entry, in key order
FirstPhotoValue(e) ==
    IF PhotoFields(e) = {} THEN Undefined
    ELSE e.v[CHOOSE i \in PhotoFields(e) : \A k \in PhotoFields(e) : i <= k].v

\* the same, with the fields photo_url, photoUrl and photo before the others
PreferredPhotoValue(e) ==
    LET common == { i \in PhotoFields(e) : e.v[i].k \in {KPhoto_url, KPhotoUrl, KPhoto} }
    IN  IF common = {} THEN FirstPhotoValue(e)
        ELSE e.v[CHOOSE i \in common : \A k \in common : i <= k].v

\* the images of bundle b are extracted from its entries
ExtractedFromEntries(b) ==
    \A k \in 1..Len(UpstreamImages(b)) : normalizeUrl(UpstreamImages(b)[k]) = Null

\* C13 (as claimed): when the photos are extracted from the entries, the
\* images are, in entry order, the normalized value of the first photo field
\* of each entry that has one, and nothing for the other entries.
C13_FirstPhotoField ==
    (Transformed /\ ListsOfRecords) =>
        \A b \in 1..Len(dailyConversations) :
            ExtractedFromEntries(b) =>
                dailyConversations[b].images
                    = Filter(Map(SourceEntries(b),
                                 LAMBDA e : normalizeUrl(FirstPhotoValue(e))),
                             Truthy)

\* C13 (amended): when the photos are extracted from the entries, the images
\* are, in entry order, the normalized value of one photo field of each
\* entry: the first of photo_url, photoUrl and photo that has a value, else
\* the first field with "photo" in its name that has a value; an entry
\* without such a field, or whose value normalizes to no photo, gives nothing.
C13_PreferredPhotoField ==
    (Transformed /\ ListsOfRecords) =>
        \A b \in 1..Len(dailyConversations) :
            ExtractedFromEntries(b) =>
                dailyConversations[b].images
                    = Filter(Map(SourceEntries(b),
                                 LAMBDA e : normalizeUrl(PreferredPhotoValue(e))),
                             Truthy)

\* an entry whose only photo field is coverPhoto and an entry that has photo
\* after coverPhoto: one image each, the second from photo
C13_Witness ==
    /\ Transformed
    /\ Truthy(baseURL)
    /\ \E b \in 1..Len(dailyConversations) :
           /\ ExtractedFromEntries(b)
           /\ Len(SourceEntries(b)) = 2
           /\ SourceEntries(b)[1].v = <<Prop(KCoverPhoto, Str(AbsolutePhoto2))>>
           /\ Len(SourceEntries(b)[2].v) = 2
           /\ Get(SourceEntries(b)[2], KPhoto) = Str(RelativePhoto)
           /\ dailyConversations[b].images
                  = <<Str(AbsolutePhoto2), Str(baseURL.v \o RelativePhoto)>>

\* C14 (as claimed): every bundle whose date does not parse stands after
\* every bundle whose date parses, and the bundles whose dates parse are in
\* descending order.
C14_UnknownDatesLast ==
    Transformed =>
        \A a, b \in 1..Len(dailyConversations) :
            (a < b /\ IsIsoDate(dailyConversations[b].date.v)) =>
                /\ IsIsoDate(dailyConversations[a].date.v)
                /\ DateGetTime(dailyConversations[a].date.v).v
                       >= DateGetTime(dailyConversations[b].date.v).v

(***************************************************************************)
(* Properties of the pins list.                                            *)
(***************************************************************************)
\* the pin is an element of the list
InList(pin, list) == \E k \in 1..Len(list) : list[k] = pin

\* the place of a pin among the dropped pins
PinIndex(pin) == CHOOSE i \in 1..Len(droppedPins) : droppedPins[i] = pin

\* the category of the pin is selected, or no category is
CategoryPasses(pin) ==
    \/ selectedCategories = <<>>
    \/ \E i \in 1..Len(selectedCategories) : selectedCategories[i] = pin.category

\* C15: a pin is left by the category step iff its category is among the
\* selected ones or none is selected; with none selected the step leaves
\* the pins as they are, in their order; and no pin of another category is
\* in the list returned.
C15_CategoryFilter ==
    /\ \A i \in 1..Len(droppedPins) :
           InList(droppedPins[i], categoryStep) <=> CategoryPasses(droppedPins[i])
    /\ \A k \in 1..Len(categoryStep) : InList(categoryStep[k], droppedPins)
    /\ selectedCategories = <<>> => categoryStep = droppedPins
    /\ \A k \in 1..Len(filteredPins) : CategoryPasses(filteredPins[k])

\* some categories are selected; a pin passes and another does not
C15_Witness ==
    /\ Len(selectedCategories) = 2
    /\ Len(droppedPins) = 3
    /\ Len(categoryStep) = 2
    /\ ~InList(Pin("p5", "other", 0, 50, Str(Day3)), categoryStep)
    /\ InList(Pin("p5", "other", 0, 50, Str(Day3)), droppedPins)

\* the distance of a pin from the user in thousandths of a mile, taken on
\* the plane: within 0.2 degree of the equator a thousandth of a degree is
\* 111.195 m, that is 0.069093 mile, in both directions
FlatMilliMiles(loc, pin) ==
    LET dLat == pin.latitude - loc.latitude
        dLon == pin.longitude - loc.longitude
    IN  Quot(Sqrt((dLat * dLat + dLon * dLon) * 10000) * 6909, 10000)

\* C16: with a known position of the user, a pin of a passing category is
\* returned iff its distance from the user is at most maxDistance miles
\* (left open within a hundredth of a mile of the radius); seen from (0, 0)
\* the pin at (0, 0.1) is returned for 10 miles and is not for 5 miles.
C16_DistanceFilter ==
    location # Null =>
        \A i \in 1..Len(droppedPins) :
            LET pin   == droppedPins[i]
                miles == FlatMilliMiles(location, pin)
            IN  CategoryPasses(pin) =>
                    /\ miles + 10 < maxDistance * 1000 => InList(pin, filteredPins)
                    /\ miles - 10 > maxDistance * 1000 => ~InList(pin, filteredPins)
                    /\ (/\ location = [latitude |-> 0, longitude |-> 0]
                        /\ pin.latitude = 0
                        /\ pin.longitude = 100)
                           => (/\ maxDistance = 10 => InList(pin, filteredPins)
                               /\ maxDistance = 5 => ~InList(pin, filteredPins))

\* from (0, 0) and for 10 miles the pin at (0, 0.1) is kept and the pin at
\* (0, 0.2) is dropped
C16_Witness ==
    /\ location = [latitude |-> 0, longitude |-> 0]
    /\ maxDistance = 10
    /\ selectedCategories = <<>>
    /\ InList(Pin("p3", "item", 0, 200, Undefined), droppedPins)
    /\ filteredPins = <<Pin("p1", "food", 0, 100, Str(Day1))>>

\* the pin passes the filters of the list
PassesFilters(pin) ==
    /\ CategoryPasses(pin)
    /\ location # Null => WithinDistance(location, pin, maxDistance)

\* C17: the list returned holds each pin that passes the filters once and
\* no other; for 'none' it is in the order of the dropped pins, for
\* 'distance' with a known position in ascending distance from the user,
\* for 'time' in descending createdAt, a pin without createdAt last; pins
\* with equal keys are in the order of the dropped pins.
C17_SortOrder ==
    /\ \A i \in 1..Len(droppedPins) :
           InList(droppedPins[i], filteredPins) <=> PassesFilters(droppedPins[i])
    /\ \A k \in 1..Len(filteredPins) : InList(filteredPins[k], droppedPins)
    /\ \A j, k \in 1..Len(filteredPins) :
           j < k =>
               LET a == filteredPins[j]
                   b == filteredPins[k]
                   inOrder == PinIndex(a) < PinIndex(b)
               IN  /\ a # b
                   /\ sortOption = "none" => inOrder
                   /\ (sortOption = "distance" /\ location # Null) =>
                          /\ PinDistance(location, a) <= PinDistance(location, b)
                          /\ PinDistance(location, a) = PinDistance(location, b)
                                 => inOrder
                   /\ sortOption = "time" =>
                          /\ PinTime(a) >= PinTime(b)
                          /\ PinTime(a) = PinTime(b) => inOrder

\* sorted by time: the two pins of the same day first, in their order, the
\* older pin, which was dropped first, last
C17_Witness ==
    /\ sortOption = "time"
    /\ location # Null
    /\ droppedPins = << Pin("p2", "drink", 0, 0, Str(Day2)),
                        Pin("p4", "food", 100, 0, Str(Day1)),
                        Pin("p1", "food", 0, 100, Str(Day1)) >>
    /\ filteredPins = << Pin("p4", "food", 100, 0, Str(Day1)),
                         Pin("p1", "food", 0, 100, Str(Day1)),
                         Pin("p2", "drink", 0, 0, Str(Day2)) >>

(***************************************************************************)
(* Further properties of the aggregation.                                  *)
(***************************************************************************)
\* the conversation shows the fields of the entry
BuiltFrom(conversation, entry) ==
    /\ conversation.message
           = IF Truthy(Get(entry, KSummary)) THEN Get(entry, KSummary)
             ELSE Str(<<"Journal Entry">>)
    /\ conversation.timestamp
           = IF Truthy(Get(entry, KTimestamp)) THEN Get(entry, KTimestamp)
             ELSE Str(<<>>)
    /\ conversation.latitude = Get(entry, KLatitude)
    /\ conversation.longitude = Get(entry, KLongitude)
    /\ conversation.location_name = Get(entry, KLocationName)

\* C18: the conversations of a bundle are as many as the entries of its
\* date, conversation i is built from entry i, and totalMessages is the
\* number of conversations.
C18_EntryOrderKept ==
    (Transformed /\ ListsOfRecords) =>
        \A b \in 1..Len(dailyConversations) :
            /\ Len(dailyConversations[b].conversations) = Len(SourceEntries(b))
            /\ dailyConversations[b].totalMessages
                   = Len(dailyConversations[b].conversations)
            /\ \A j \in 1..Len(SourceEntries(b)) :
                   BuiltFrom(dailyConversations[b].conversations[j], SourceEntries(b)[j])

\* two entries that differ, in the order of the input
C18_Witness ==
    /\ Transformed
    /\ \E b \in 1..Len(dailyConversations) :
           /\ dailyConversations[b].totalMessages = 2
           /\ Get(SourceEntries(b)[1], KLatitude) = Undefined
           /\ Get(SourceEntries(b)[2], KLatitude) = Num(48)
           /\ dailyConversations[b].conversations[1].latitude = Undefined
           /\ dailyConversations[b].conversations[2].latitude = Num(48)

\* the entry has a latitude and a longitude
HasBothCoordinates(entry) ==
    Get(entry, KLatitude).t = "number" /\ Get(entry, KLongitude).t = "number"

\* C19 (as claimed): every entry of the date is among the conversations of
\* the bundle, and the locations of the bundle are, one for one, the entries
\* that have a latitude and a longitude, the value 0 included.
C19_LocationsOfCoordinates ==
    (Transformed /\ ListsOfRecords) =>
        \A b \in 1..Len(dailyConversations) :
            LET located == { j \in 1..Len(SourceEntries(b)) :
                               HasBothCoordinates(SourceEntries(b)[j]) }
            IN  /\ Len(dailyConversations[b].conversations) = Len(SourceEntries(b))
                /\ Len(dailyConversations[b].locations) = Cardinality(located)
                /\ \A k \in 1..Len(dailyConversations[b].locations) :
                       \E j \in located :
                           /\ dailyConversations[b].locations[k].latitude
                                  = Get(SourceEntries(b)[j], KLatitude)
                           /\ dailyConversations[b].locations[k].longitude
                                  = Get(SourceEntries(b)[j], KLongitude)

\* C20 (as claimed): after a run of loadConversationData in which a request
\* failed, conversationLocations and dailyConversations both have the values
\* they had when the screen was mounted, or both hold the data of the run.
C20_NoPartialUpdate ==
    (/\ loadOutcome = "caught"
     /\ Rejected \in {respDebugUser, respLocations, respEntries}) =>
        \/ /\ conversationLocations = <<>>
           /\ dailyConversations = <<>>
        \/ /\ conversationLocations = LoadedLocations
           /\ respEntries # Rejected
           /\ Truthy(JournalData)
           /\ Len(dailyConversations) = Len(JournalData.v)

(***************************************************************************)
(* Editing and reloading on the journal screen.                            *)
(***************************************************************************)
\* handleSaveEdit has sent its PATCH, and this step brings the answer
PatchFulfilled == saveCall.pc = "patch" /\ saveCall'.pc = "reload"
PatchRejected == saveCall.pc = "patch" /\ saveCall'.pc = "idle"

\* the two records differ in nothing but message and response
SameButTexts(a, b) ==
    [a EXCEPT !.message = Null, !.response = Null]
        = [b EXCEPT !.message = Null, !.response = Null]

RefreshRuns == { i \in 1..Len(loads) : loads[i].origin = "refresh" }

\* C22: a step that starts runs for a refresh starts exactly one and sets
\* refreshing; no run has sent a request to the same endpoint twice;
\* refreshing is false after a step in which a run of a refresh ends, and
\* it is never true without such a run under way.
C22_RefreshRunsOnce ==
    /\ [](/\ \A i \in 1..Len(loads) :
                \A j, k \in 1..Len(loads[i].sent) :
                    loads[i].sent[j] = loads[i].sent[k] => j = k
          /\ refreshing => RefreshRuns # {})
    /\ [][ /\ (refreshing' /\ ~refreshing)
              => /\ Len(loads') = Len(loads) + 1
                 /\ loads'[Len(loads')].origin = "refresh"
           /\ (Len(loads') > Len(loads) /\ loads'[Len(loads')].origin = "refresh")
              => /\ Len(loads') = Len(loads) + 1
                 /\ loads'[Len(loads')].sent = <<PathDebugUser>>
                 /\ refreshing'
           /\ (Len(loads') < Len(loads)
               /\ Cardinality(RefreshRuns') < Cardinality(RefreshRuns))
              => ~refreshing'
         ]_vars

\* the run of a refresh has sent its four requests, once each
C22_Witness ==
    /\ refreshing
    /\ \E i \in RefreshRuns :
           loads[i].sent = <<PathDebugUser, PathLocations, PathEntries, PathDailyEntries>>

\* the entries of the journal the backend holds, as <<date, position>>
StoredSlots(journal) ==
    UNION { { <<d, i>> : i \in 1..Len(EntryArray(journal.v[d].v)) } :
              d \in 1..Len(journal.v) }

StoredAt(journal, slot) == EntryArray(journal.v[slot[1]].v)[slot[2]]

\* C23: when the PATCH of handleSaveEdit for an entry opened from the list
\* succeeds, the entry that was opened has the two texts that were sent and
\* every other entry of the journal is what it was.
C23_OnlyOpenedEntryChanged ==
    [][ (PatchFulfilled /\ saveCall.target.index > 0)
        => \A slot \in StoredSlots(serverJournal) :
               IF /\ Str(serverJournal.v[slot[1]].k) = saveCall.target.date
                  /\ slot[2] = saveCall.target.index
               THEN /\ Get(StoredAt(serverJournal', slot), KSummary) = saveCall.body.summary
                    /\ Get(StoredAt(serverJournal', slot), KDiary) = saveCall.body.diary
               ELSE StoredAt(serverJournal', slot) = StoredAt(serverJournal, slot)
      ]_vars

\* C26: when no run of loadConversationData is under way any more and the
\* run that started last has passed a list to setDailyConversations, the
\* list view holds that list.
C26_LatestLoadWins ==
    (loads = <<>> /\ latestResult # Undefined) => dailyConversations = latestResult

C24_OneSoundAtATime == Cardinality({ s \in sounds : s.playing }) <= 1

CallIds(calls) == { calls[i].id : i \in 1..Len(calls) }
PostIds(calls) == { calls[i].id : i \in { j \in 1..Len(calls) : calls[j].pc = "post" } }

\* the texts of the three fixed error messages
GenericTexts == { TextEncountered, TextCannotConnect, TextWentWrong }

\* the replies and the messages the backend sends
ServerReplies ==
    { Get(r.data, KResponse) : r \in { q \in ChatReplies : Succeeded(q) } }
ServerMessages ==
    { Get(r.data, KMessage) :
        r \in { q \in ChatReplies : q.t = "response" /\ ~ReadThrows(q.data) } }

\* C25 as stated: every message of the chat that is not the user's is the
\* reply of the assistant or one of the generic error texts.
C25_ReplyOrGenericText ==
    \A i \in 1..Len(messages) :
        ~messages[i].isUser => messages[i].text \in ServerReplies \cup GenericTexts

\* C25: a step starts at most one call of handleSubmitMessage, only with
\* input that is not blank, and then appends the trimmed input as one user
\* message and sets isLoading; the step in which the request of a call
\* settles appends one message that is not the user's, whose text is the
\* reply, the message the backend sent or one of the generic texts; no
\* other step changes messages; and isLoading is false after the step in
\* which a call ends.
C25_OneUserOneReply ==
    [][ LET started == CallIds(chatCalls') \ CallIds(chatCalls)
            answered == PostIds(chatCalls) \ PostIds(chatCalls')
            ended == CallIds(chatCalls) \ CallIds(chatCalls')
        IN  /\ Cardinality(started) + Cardinality(answered) <= 1
            /\ started # {}
               => /\ Trim(inputText) # <<>>
                  /\ messages' = Append(messages, Message(TRUE, Str(Trim(inputText))))
                  /\ isLoading'
            /\ answered # {}
               => \E text \in ServerReplies \cup ServerMessages \cup GenericTexts :
                      messages' = Append(messages, Message(FALSE, text))
            /\ (started = {} /\ answered = {}) => messages' = messages
            /\ ended # {} => ~isLoading'
      ]_vars

\* a call has ended whose request the backend answered with its own message
C25_Witness ==
    /\ chatCalls = <<>>
    /\ ~isLoading
    /\ messages = <<Message(TRUE, Str(<<"hi">>)), Message(FALSE, Str(<<"Quota exceeded">>))>>


\* C27: the microphone button is never recording and processing at once.
C27_NotRecordingAndProcessing == ~(isRecording /\ isProcessing)

\* C28: whenever isProcessing is true it is false again later.
C28_ProcessingEnds == isProcessing ~> ~isProcessing


\* the headers of the requests sent by runs in which no storage call threw
SentHeaders ==
    { authCalls[i].header :
        i \in { j \in 1..Len(authCalls) : authCalls[j].pc = "sent" /\ ~authCalls[j].caught } }

\* C29: the requests sent without a signed-in user, by runs of the
\* interceptor in which every storage call succeeded, all carry the same
\* header, and once the item demo_user_id is stored it is the header of
\* that id.
C29_OneDemoIdentity ==
    /\ Cardinality(SentHeaders) <= 1
    /\ demoUserId # Null => SentHeaders \subseteq { DemoHeader(demoUserId.v) }

====
